---- MODULE Spec2Model ----
(***************************************************************************)
(* Incremental collection pipeline of the news bot: watermark diff          *)
(* (sources.get_new_entries), dedup gate (JSONStore.save / SupabaseDB.save),*)
(* the collection cycle (commands.cmd_collect), the watermark store         *)
(* (state.load_state / save_state, SupabaseDB.load_state / save_state),     *)
(* the classifier response handling (llm._run_filter), the extraction       *)
(* cascade (scraper.scrape_article) and the browser manager                 *)
(* (browser.BrowserManager).                                               *)
(*                                                                         *)
(* The specifications of the module:                                       *)
(*   Spec        the collection cycle run one cycle at a time against the   *)
(*               upstream feeds, the record store and the watermark store;  *)
(*   SpecDiff    get_new_entries applied to every bounded entry list and    *)
(*               every prior watermark, twice in a row (bootstrap);         *)
(*   SpecStore   save and update calls through one store object;            *)
(*   SpecE2E     the collection cycle on the end-to-end scenario;           *)
(*   SpecFilter  _run_filter on every bounded batch and response;           *)
(*   SpecScrape  one call of scrape_article;                               *)
(*   SpecBrowser get() and close() of BrowserManager from several threads.  *)
(***************************************************************************)
EXTENDS Integers, Sequences, FiniteSets, TLC

(***************************************************************************)
(* Bounds                                                                  *)
(***************************************************************************)
MaxLink == 2         \* links 1..MaxLink; a source publishes increasing links
MaxFeed == 1         \* an upstream feed lists its MaxFeed newest entries
MaxPub == 4          \* upstream: the newest links of the sources add up to at most this
MaxRuns == 2         \* collection cycles started in one behaviour
MaxDiffLen == 4      \* SpecDiff: longest entry list handed to get_new_entries
MaxDiffLink == 3     \* SpecDiff: links 1..MaxDiffLink
MaxCalls == 3        \* SpecStore: calls made through the store object
MaxStoreUrl == 2     \* SpecStore: URLs 1..MaxStoreUrl
MaxBatch == 2        \* SpecFilter: entries in the batch handed to _run_filter
MaxItems == 2        \* SpecFilter: elements of the `results` list
MaxTextRuns == 2     \* SpecScrape: character runs in an extracted text
MaxThreads == 2      \* SpecBrowser: threads that call BrowserManager
MaxBrowserCalls == 4 \* SpecBrowser: calls of get() and close() in total
E2ENew == 3          \* SpecE2E: new entries per source in the scenario
MaxJobs == 2         \* SpecSched: calls of _job_collect in one behaviour
MaxOverlapRuns == 2  \* SpecOverlap: calls of cmd_collect in one behaviour
MaxRequests == 2     \* SpecBot: requests the bot handles in one behaviour
MaxFetches == 3      \* SpecFetch: calls of fetch_html on the instance
MaxAnalyses == 1     \* SpecLifecycle: analysed records at a time
MaxUpdates == 5      \* SpecAdmin: bot updates handled in one behaviour

(***************************************************************************)
(* Program constants                                                       *)
(***************************************************************************)
SIMILARITY_THRESHOLD == 75      \* config.SIMILARITY_THRESHOLD = 0.75, in percent
batch_size == 20                \* commands.cmd_collect, classifier batch
MIN_CONTENT_LENGTH == 100       \* config.MIN_CONTENT_LENGTH
BROWSER_DELAY == 3              \* config.BROWSER_DELAY, seconds
TELEGRAM_ADMIN_ID == 1          \* config.TELEGRAM_ADMIN_ID, the admin's user id

Sources == {1, 2}               \* ids of the active sources, in registry order
NumSources == Cardinality(Sources)
Links == 1..MaxLink
NoLink == 0                     \* Python None / "" : "not last_top_link"
Cycles == {"sched", "manual"}   \* scheduler thread, manual /collect trigger
None == <<>>                    \* Python None: an optional value is None or Some(v)
Some(v) == <<v>>
The(opt) == opt[1]

(***************************************************************************)
(* Titles are character sequences; three concrete titles are enough to      *)
(* have an equal pair, a pair at ratio exactly 0.75, a pair below it and a   *)
(* pair whose ratio depends on the argument order.                          *)
(***************************************************************************)
T_aba == <<"a", "b", "a">>
T_BABBA == <<"B", "A", "B", "B", "A">>
T_xy == <<"x", "y">>
Titles == {T_aba, T_BABBA, T_xy}

\* SpecE2E: the headline of article l, one letter each, pairwise at ratio 0
E2ELinks == 3..(2 * E2ENew + 2)
E2ETitle(l) == <<<<"c", "d", "e", "f", "g", "h", "i", "j">>[l - 2]>>
E2ETitles == {E2ETitle(l) : l \in E2ELinks}

\* str.lower() on the characters the titles use
LowerChar(ch) ==
    CASE ch = "A" -> "a"
      [] ch = "B" -> "b"
      [] ch = "X" -> "x"
      [] ch = "Y" -> "y"
      [] OTHER -> ch

lower(s) == [i \in 1..Len(s) |-> LowerChar(s[i])]

(***************************************************************************)
(* difflib.SequenceMatcher(None, a, b) without junk (autojunk only acts on  *)
(* a second sequence of 200 or more elements; titles are shorter).          *)
(* Indices are 0-based half-open ranges as in difflib.                      *)
(***************************************************************************)
RECURSIVE CommonRun(_, _, _, _, _, _)
\* length of the run of equal elements starting at a[i], b[j] inside the ranges
CommonRun(a, i, ahi, b, j, bhi) ==
    IF i >= ahi \/ j >= bhi THEN 0
    ELSE IF a[i + 1] # b[j + 1] THEN 0
    ELSE 1 + CommonRun(a, i + 1, ahi, b, j + 1, bhi)

\* find_longest_match: the longest block; of those the one starting earliest
\* in a, and of those the one starting earliest in b; (alo, blo, 0) if none.
find_longest_match(a, alo, ahi, b, blo, bhi) ==
    LET cands == {p \in (alo..(ahi - 1)) \X (blo..(bhi - 1)) :
                     CommonRun(a, p[1], ahi, b, p[2], bhi) > 0}
        len(p) == CommonRun(a, p[1], ahi, b, p[2], bhi)
    IN  IF cands = {} THEN <<alo, blo, 0>>
        ELSE LET best == CHOOSE p \in cands :
                            \A q \in cands :
                               \/ len(p) > len(q)
                               \/ /\ len(p) = len(q)
                                  /\ \/ p[1] < q[1]
                                     \/ p[1] = q[1] /\ p[2] <= q[2]
             IN  <<best[1], best[2], len(best)>>

RECURSIVE MatchCount(_, _, _, _, _, _)
\* get_matching_blocks: sum of the sizes of the blocks found by recursing
\* left and right of the longest match
MatchCount(a, alo, ahi, b, blo, bhi) ==
    LET m == find_longest_match(a, alo, ahi, b, blo, bhi)
        i == m[1]
        j == m[2]
        k == m[3]
    IN  IF k = 0 THEN 0
        ELSE k
             + (IF alo < i /\ blo < j
                THEN MatchCount(a, alo, i, b, blo, j) ELSE 0)
             + (IF i + k < ahi /\ j + k < bhi
                THEN MatchCount(a, i + k, ahi, b, j + k, bhi) ELSE 0)

\* ratio() = 2.0 * matches / (len(a) + len(b)), 1.0 when both are empty;
\* returned as the pair <<numerator, denominator>>
ratio(a, b) ==
    IF Len(a) + Len(b) = 0 THEN <<1, 1>>
    ELSE <<2 * MatchCount(a, 0, Len(a), b, 0, Len(b)), Len(a) + Len(b)>>

\* helpers.similarity: SequenceMatcher(None, a.lower(), b.lower()).ratio()
similarity(a, b) == ratio(lower(a), lower(b))

\* similarity(a, b) >= SIMILARITY_THRESHOLD, the comparison of store.py:87
SimilarTable ==
    [a \in Titles \cup E2ETitles |->
        [b \in Titles \cup E2ETitles |->
            LET r == similarity(a, b)
            IN  100 * r[1] >= SIMILARITY_THRESHOLD * r[2]]]

Similar(a, b) == SimilarTable[a][b]

(***************************************************************************)
(* helpers.generate_id: md5(url)[:8].  The URLs of the model are taken to   *)
(* have pairwise distinct digests; an id is a value of its own type.        *)
(***************************************************************************)
generate_id(url) == <<"md5", url>>

(***************************************************************************)
(* sources.get_new_entries                                                 *)
(***************************************************************************)
\* variant: the entry that carries the watermark is appended before the break
RECURSIVE ScanNew_inclusive(_, _, _)
ScanNew_inclusive(entries, last_top_link, i) ==
    IF i > Len(entries) THEN <<>>
    ELSE IF entries[i].link = last_top_link THEN <<entries[i]>>
    ELSE <<entries[i]>> \o ScanNew_inclusive(entries, last_top_link, i + 1)

RECURSIVE ScanNew(_, _, _)
\* the for loop of get_new_entries from position i on
ScanNew(entries, last_top_link, i) ==
    IF i > Len(entries) THEN <<>>
    ELSE IF entries[i].link = last_top_link THEN <<>>
    ELSE <<entries[i]>> \o ScanNew(entries, last_top_link, i + 1)

\* variant: without a prior watermark the link of the last entry is returned
get_new_entries_oldest(entries, last_top_link) ==
    IF entries = <<>> THEN << <<>>, NoLink >>
    ELSE IF last_top_link = NoLink THEN <<entries, entries[Len(entries)].link>>
    ELSE IF entries[1].link = last_top_link THEN << <<>>, entries[1].link >>
    ELSE <<ScanNew(entries, last_top_link, 1), entries[1].link>>

\* variant: a watermark that is not in the list yields no new entries
get_new_entries_found(entries, last_top_link) ==
    IF entries = <<>> THEN << <<>>, NoLink >>
    ELSE IF last_top_link = NoLink THEN <<entries, entries[1].link>>
    ELSE IF \E i \in 1..Len(entries) : entries[i].link = last_top_link
         THEN <<ScanNew(entries, last_top_link, 1), entries[1].link>>
         ELSE << <<>>, entries[1].link >>

\* variant: every fetched entry counts as new
get_new_entries_all(entries, last_top_link) == <<entries, entries[1].link>>

\* returns <<new_entries, current_top_link>>
get_new_entries(entries, last_top_link) ==
    IF entries = <<>> THEN << <<>>, NoLink >>
    ELSE LET current_top_link == entries[1].link
         IN  IF last_top_link = NoLink THEN <<entries, current_top_link>>
             ELSE IF current_top_link = last_top_link
                  THEN << <<>>, current_top_link >>
                  ELSE <<ScanNew(entries, last_top_link, 1), current_top_link>>

(***************************************************************************)
(* State                                                                   *)
(***************************************************************************)
VARIABLES
    backend,    \* "json" (JSONStore + state.json) or "supabase" (SupabaseDB)
    feed,       \* upstream: feed[s] is what a fetch of source s returns, newest first
    lastPub,    \* upstream: the newest link source s has ever published
    news,       \* persisted records in the order they were written
    wm,         \* persisted watermark map: wm[s] = last_top_link, NoLink if none
    runs,       \* number of collection cycles started so far
    loc,        \* loc[c]: the local variables of cmd_collect running as cycle c
    dEntries,   \* SpecDiff: the fetched entry list
    dLast,      \* SpecDiff: the prior watermark link
    dNew,       \* SpecDiff: new_entries returned by get_new_entries
    dTop,       \* SpecDiff: top link returned by get_new_entries
    dPhase,     \* SpecDiff: "off", "input", "first" (applied once), "second"
    dBoot,      \* SpecDiff: the first application had no prior watermark
    store_urls_cache,   \* SpecStore: the store object's cached URLs
    store_titles_cache, \* SpecStore: the store object's cached titles
    store_arg,          \* SpecStore: the record handed to the last call
    store_ret,          \* SpecStore: what the last save call returned
    store_calls,        \* SpecStore: number of calls made so far
    fEntries,   \* SpecFilter: the batch handed to _run_filter
    fResp,      \* SpecFilter: what groq.chat does for the call
    fOut,       \* SpecFilter: the list _run_filter returned
    fPhase,     \* SpecFilter: "off", "input", "done"
    sc,         \* SpecScrape: one call of scrape_article
    bm,         \* SpecBrowser: BrowserManager's class state and the processes
    th,         \* SpecBrowser: th[t] is the call thread t is in
    sch,        \* SpecSched: the scheduler thread (scheduler._run_scheduler)
    pd,         \* SpecDate: one call of helpers.parse_published_date
    ev,         \* SpecBot: the handlers on the bot's event loop and their executor jobs
    fh,         \* SpecFetch: one BrowserManager instance and its fetch_html calls
    az,         \* SpecAnalyze: one call of llm.analyze_single
    cw,         \* SpecChallenge: the challenge wait of _run_browser_html
    ix,         \* SpecIdx: a call of fetch_idx_announcements from the scan loop
    ad          \* SpecAdmin: the bot's source registry and who changed it

vars == <<backend, feed, lastPub, news, wm, runs, loc,
          dEntries, dLast, dNew, dTop, dPhase, dBoot,
          store_urls_cache, store_titles_cache, store_arg, store_ret,
          store_calls, fEntries, fResp, fOut, fPhase, sc, bm, th, sch, pd, ev, fh, az, cw, ix, ad>>
storeVars == <<store_urls_cache, store_titles_cache, store_arg, store_ret,
               store_calls>>
auxVars == <<fEntries, fResp, fOut, fPhase, sc, bm, th, sch, pd, ev, fh, az, cw, ix, ad>>
diffVars == <<dEntries, dLast, dNew, dTop, dPhase, dBoot, storeVars, auxVars>>
cycleVars == <<backend, feed, lastPub, news, wm, runs, loc>>
\* the variables of the specifications from SpecSched on
extVars == <<sch, pd, ev, fh, az, cw, ix, ad>>
\* the variables of the specifications before SpecSched
coreVars == <<cycleVars, dEntries, dLast, dNew, dTop, dPhase, dBoot, storeVars,
              fEntries, fResp, fOut, fPhase, sc, bm, th>>

EmptyState == [s \in Sources |-> NoLink]

\* cmd_collect before it is called / after it returned
IdleLocals ==
    [pc |-> "idle",             \* idle, scan, filter, store, notify, savestate, done
     sidx |-> 0,                \* position of the for loop over sources
     state |-> EmptyState,      \* load_state(db)
     all_new |-> <<>>,          \* (source, new_entries, top_link) triples
     parsed |-> <<>>,           \* Phase 2 output
     bidx |-> 0,                \* start of the next classifier batch
     relevant |-> <<>>,         \* Phase 3 output, sorted before Phase 4
     ridx |-> 0,                \* position of the for loop over relevant
     ret |-> None,              \* what the last store.save call returned
     inserted_records |-> <<>>,
     urls_cache |-> None,       \* store object: JSONStore._cache / _urls_cache
     titles_cache |-> None,     \* store object: JSONStore._cache / _titles_cache
     handed |-> None,           \* list handed to notify_new_articles
     failed |-> {},             \* log: which kinds of failure this cycle has met
     seen |-> EmptyState,       \* log: top link of the list each fetch returned
     wm0 |-> EmptyState,        \* log: the persisted watermarks when the cycle began
     news0 |-> 0,               \* log: how many records were stored when it began
     upsert_failed |-> {}]      \* log: sources whose watermark upsert failed

Idle == \A c \in Cycles : loc[c].pc = "idle"

(***************************************************************************)
(* Publish times.  An instant is seconds and microseconds (UTC).             *)
(* helpers.parse_published_date returns datetime.isoformat() of the instant  *)
(* in UTC: "...SS+00:00", or "...SS.ffffff+00:00" when the microseconds are  *)
(* not zero.  A key is the sequence of character codes from the seconds      *)
(* field on; the fields before it have a fixed width and are kept in the     *)
(* seconds.  cmd_collect sorts by these strings.                            *)
(***************************************************************************)
Ord(ch) == CASE ch = "+" -> 43 [] ch = "." -> 46 [] ch = "0" -> 48

\* datetime.isoformat() of a UTC instant
isoformat(t) ==
    <<Ord("0") + t.sec>>
    \o (IF t.us = 0 THEN <<>> ELSE <<Ord("."), Ord("0") + t.us>>)
    \o <<Ord("+")>>

\* parse_published_date(entry): the entry's publish instant, as ISO string
parse_published_date(entry) == isoformat(entry.published)

RECURSIVE StrLess(_, _)
\* Python str < str: lexicographic by character code
StrLess(a, b) ==
    IF b = <<>> THEN FALSE
    ELSE IF a = <<>> THEN TRUE
    ELSE IF Head(a) # Head(b) THEN Head(a) < Head(b)
    ELSE StrLess(Tail(a), Tail(b))

(***************************************************************************)
(* Sequence helpers                                                        *)
(***************************************************************************)
Take(s, n) == SubSeq(s, 1, IF Len(s) < n THEN Len(s) ELSE n)

RECURSIVE Flatten(_)
Flatten(ss) == IF ss = <<>> THEN <<>> ELSE Head(ss) \o Flatten(Tail(ss))

RECURSIVE SelectIdx(_, _, _)
\* the elements of s at the positions in idx, in list order, from position i on
SelectIdx(s, idx, i) ==
    IF i > Len(s) THEN <<>>
    ELSE (IF i \in idx THEN <<s[i]>> ELSE <<>>) \o SelectIdx(s, idx, i + 1)

RECURSIVE InsertDesc(_, _)
\* insert e after every element with published_at >= its own (stable)
InsertDesc(sorted, e) ==
    IF sorted = <<>> THEN <<e>>
    ELSE IF ~StrLess(Head(sorted).published_at, e.published_at)
         THEN <<Head(sorted)>> \o InsertDesc(Tail(sorted), e)
         ELSE <<e>> \o sorted

\* variant: the list is written in the order the classifier returned it
SortDesc_unsorted(s) == s

RECURSIVE SortDesc(_)
\* list.sort(key=published_at, reverse=True): descending and stable
SortDesc(s) ==
    IF s = <<>> THEN <<>>
    ELSE InsertDesc(SortDesc(SubSeq(s, 1, Len(s) - 1)), s[Len(s)])

(***************************************************************************)
(* Record store: JSONStore (store.py) and SupabaseDB (db.py)                *)
(***************************************************************************)
AllUrls(db) == {db[i].url : i \in 1..Len(db)}
AllTitles(db) == [i \in 1..Len(db) |-> db[i].title]

\* variant: no URL gate
is_duplicate_url_never(urls, url) == FALSE

\* is_duplicate_url: url in self.get_all_urls()
is_duplicate_url(urls, url) == url \in urls

\* variant: similarity(existing, title), the arguments exchanged
is_redundant_title_swapped(titles, title) ==
    \E i \in 1..Len(titles) : Similar(titles[i], title)

\* is_redundant_title: some stored title with similarity(title, existing) >= 0.75
is_redundant_title(titles, title) ==
    \E i \in 1..Len(titles) : Similar(title, titles[i])

\* get_all_urls through the store object's cache.  JSONStore._load_all fills
\* the one cache that serves URLs and titles; SupabaseDB fills _urls_cache.
get_all_urls(b, db, uc) == IF uc # None THEN The(uc) ELSE AllUrls(db)

\* get_all_titles through the store object's cache
get_all_titles(b, db, tc) == IF tc # None THEN The(tc) ELSE AllTitles(db)

\* variant: the title gate is applied after the record was written
save_writes_first(b, db, uc, tc, record, insert_ok) ==
    LET urls == get_all_urls(b, db, uc)
        titles == get_all_titles(b, db, tc)
        written == Append(db, [record EXCEPT !.id = generate_id(record.url)])
    IN  IF is_duplicate_url(urls, record.url) \/ (b = "supabase" /\ ~insert_ok)
        THEN [ret |-> FALSE, db |-> db, uc |-> Some(urls), tc |-> Some(titles)]
        ELSE IF is_redundant_title(titles, record.title)
        THEN [ret |-> FALSE, db |-> written, uc |-> None, tc |-> None]
        ELSE [ret |-> TRUE, db |-> written, uc |-> None, tc |-> None]

\* variant: save writes the record as it was handed over, without the id
save_without_id(b, db, uc, tc, record, insert_ok) ==
    LET urls == get_all_urls(b, db, uc)
        titles == get_all_titles(b, db, tc)
    IN  IF \/ is_duplicate_url(urls, record.url)
           \/ is_redundant_title(titles, record.title)
           \/ b = "supabase" /\ ~insert_ok
        THEN [ret |-> FALSE, db |-> db, uc |-> Some(urls), tc |-> Some(titles)]
        ELSE [ret |-> TRUE, db |-> Append(db, record), uc |-> None, tc |-> None]

\* The write at the end of save.  JSONStore (lines 106-114) names the file
\* after the id and the title and opens it for writing: a file of that name
\* is replaced.  SupabaseDB (line 159) inserts a row.
write(b, db, record) ==
    IF b = "json" /\ \E i \in 1..Len(db) :
                        db[i].id = record.id /\ db[i].title = record.title
    THEN [i \in 1..Len(db) |->
            IF db[i].id = record.id /\ db[i].title = record.title
            THEN record ELSE db[i]]
    ELSE Append(db, record)

\* save(record) on a store object whose caches are uc, tc; insert_ok tells
\* whether the Supabase insert succeeds (JSONStore writes a file).
\* Result: the return value, the table and the caches afterwards.
save(b, db, uc, tc, record, insert_ok) ==
    LET urls == get_all_urls(b, db, uc)
        tc1 == IF b = "json" /\ tc = None THEN Some(AllTitles(db)) ELSE tc
    IN  IF is_duplicate_url(urls, record.url)
        THEN [ret |-> FALSE, db |-> db, uc |-> Some(urls), tc |-> tc1]
        ELSE LET titles == get_all_titles(b, db, tc1)
             IN  IF is_redundant_title(titles, record.title)
                 THEN [ret |-> FALSE, db |-> db, uc |-> Some(urls), tc |-> Some(titles)]
                 ELSE IF b = "supabase" /\ ~insert_ok
                 THEN [ret |-> FALSE, db |-> db, uc |-> Some(urls), tc |-> Some(titles)]
                 ELSE [ret |-> TRUE,
                       db |-> write(b, db, [record EXCEPT !.id = generate_id(record.url)]),
                       uc |-> None, tc |-> None]

\* update(record): rewrite the stored record with that id (SupabaseDB) or at
\* that file path, named after id and title (JSONStore); update_ok tells
\* whether the Supabase call succeeds
update(b, db, record, update_ok) ==
    IF b = "supabase" /\ ~update_ok THEN db
    ELSE [i \in 1..Len(db) |->
            IF db[i].id = record.id /\ (b = "json" => db[i].title = record.title)
            THEN record ELSE db[i]]

(***************************************************************************)
(* Watermark store: state.py and SupabaseDB.load_state / save_state         *)
(***************************************************************************)
\* variant: the persisted map is not read
load_state_empty(persisted) == EmptyState

\* state.load_state / SupabaseDB.load_state: the persisted map
load_state(persisted) == persisted

\* variant: only the entries that changed are written, the file holds nothing else
save_state_fresh(b, persisted, state, rows_ok) ==
    [s \in Sources |->
        IF state[s] # persisted[s] /\ (b = "json" \/ s \in rows_ok) THEN state[s]
        ELSE IF b = "json" THEN NoLink ELSE persisted[s]]

\* JSON: the whole map replaces state.json.  Supabase: one upsert per key of
\* the map; a failing upsert is logged and skipped (rows_ok = those that succeed).
save_state(b, persisted, state, rows_ok) ==
    IF b = "json" THEN state
    ELSE [s \in Sources |->
            IF state[s] # NoLink /\ s \in rows_ok THEN state[s] ELSE persisted[s]]

(***************************************************************************)
(* Upstream and initial state                                              *)
(***************************************************************************)
\* no call of _run_filter, scrape_article or BrowserManager is under way
FilterIdle ==
    /\ fEntries = <<>>
    /\ fResp = None
    /\ fOut = None
    /\ fPhase = "off"

ScrapeIdle == sc = [pc |-> "off"]

BrowserIdle ==
    /\ bm = [pc |-> "off"]
    /\ th = <<>>

SchedIdle == sch = [pc |-> "off"]

DateIdle == pd = [pc |-> "off"]

BotIdle == ev = [pc |-> "off"]

FetchIdle == fh = [pc |-> "off"]

AnalyzeIdle == az = [pc |-> "off"]

ChallengeIdle == cw = [pc |-> "off"]

IdxIdle == ix = [pc |-> "off"]

AdminIdle == ad = [pc |-> "off"]

\* no specification from SpecSched on is under way
ExtIdle == SchedIdle /\ DateIdle /\ BotIdle /\ FetchIdle /\ AnalyzeIdle /\ ChallengeIdle /\ IdxIdle /\ AdminIdle

AuxIdle == FilterIdle /\ ScrapeIdle /\ BrowserIdle /\ ExtIdle

DiffIdle ==
    /\ AuxIdle
    /\ dEntries = <<>>
    /\ dLast = NoLink
    /\ dNew = <<>>
    /\ dTop = NoLink
    /\ dPhase = "off"
    /\ dBoot = FALSE
    /\ store_urls_cache = None
    /\ store_titles_cache = None
    /\ store_arg = None
    /\ store_ret = None
    /\ store_calls = 0

Init ==
    /\ backend \in {"json", "supabase"}
    /\ feed = [s \in Sources |-> <<>>]
    /\ lastPub = [s \in Sources |-> 0]
    /\ news = <<>>
    /\ wm = EmptyState
    /\ runs = 0
    /\ loc = [c \in Cycles |-> IdleLocals]
    /\ DiffIdle

RECURSIVE SumOver(_, _)
SumOver(f, S) ==
    IF S = {} THEN 0
    ELSE LET x == CHOOSE y \in S : TRUE IN f[x] + SumOver(f, S \ {x})

\* The instant article l is published upstream
PublishedOf(l) == [sec |-> (l + 1) \div 2, us |-> (l + 1) % 2]

\* The headline source s gives to article l.  The two sources word the same
\* article differently; across articles there are equal headlines, headlines
\* at ratio 0.75 in one argument order only, and unrelated ones.
TitleOf(s, l) ==
    IF s = 1 THEN (IF l % 2 = 0 THEN T_BABBA ELSE T_xy)
    ELSE (IF l % 2 = 1 THEN T_aba ELSE T_BABBA)

\* Upstream publishes a new entry at the top of source s's feed; the feed keeps
\* its MaxFeed newest entries.  Link l stands for the l-th article upstream:
\* the links of one source increase with time, the same article may appear at
\* another source (same link, same publish time) under the title that source
\* gives it.  Between two fetches of s only the resulting feed matters, so
\* publishing is taken while no cycle runs.
Publish(s, l) ==
    /\ Idle
    /\ l > lastPub[s]
    /\ SumOver(lastPub, Sources) - lastPub[s] + l <= MaxPub
    /\ feed' = [feed EXCEPT ![s] =
                  Take(<<[link |-> l, title |-> TitleOf(s, l),
                          published |-> PublishedOf(l)]>> \o @,
                       MaxFeed)]
    /\ lastPub' = [lastPub EXCEPT ![s] = l]
    /\ UNCHANGED <<backend, news, wm, runs, loc>>
    /\ UNCHANGED diffVars

(***************************************************************************)
(* commands.cmd_collect, one action per step                               *)
(***************************************************************************)
\* lines 33-43: get_store(), load_sources(), load_state(db).  Spec starts a
\* cycle only while no other runs.
Start(c) ==
    /\ Idle
    /\ runs < MaxRuns
    /\ runs' = runs + 1
    /\ loc' = [loc EXCEPT ![c] =
                 [IdleLocals EXCEPT !.pc = "scan", !.sidx = 1,
                                    !.state = load_state(wm), !.wm0 = wm,
                                    !.news0 = Len(news)]]
    /\ UNCHANGED <<backend, feed, lastPub, news, wm>>
    /\ UNCHANGED diffVars

\* Phase 2 (lines 89-116): one parsed entry per new entry that has a link
ParseAll(all_new) ==
    Flatten([k \in 1..Len(all_new) |->
               [j \in 1..Len(all_new[k].entries) |->
                   [title |-> all_new[k].entries[j].title,
                    url |-> all_new[k].entries[j].link,
                    published_at |-> parse_published_date(all_new[k].entries[j]),
                    source_id |-> all_new[k].source]]])

\* lines 46-82: one iteration of the loop over sources, given what the fetch
\* returned (entries) and whether it raised; after the last source either
\* return (nothing new) or go on to Phase 2 and 3
ScanStep(c, entries, raised) ==
    LET L == loc[c]
        s == L.sidx
        r == get_new_entries(entries, L.state[s])
        an == IF ~raised /\ entries # <<>> /\ r[1] # <<>>
              THEN Append(L.all_new,
                          [source |-> s, entries |-> r[1], top_link |-> r[2]])
              ELSE L.all_new
        L1 == [L EXCEPT !.all_new = an,
                        !.sidx = s + 1,
                        !.seen[s] = IF raised \/ entries = <<>> THEN NoLink
                                    ELSE entries[1].link]
    IN  /\ L.pc = "scan"
        /\ loc' = [loc EXCEPT ![c] =
                     IF s < NumSources THEN L1
                     ELSE IF an = <<>> THEN [L1 EXCEPT !.pc = "done"]
                     ELSE [L1 EXCEPT !.pc = "filter", !.parsed = ParseAll(an),
                                     !.bidx = 0]]
        /\ UNCHANGED <<backend, feed, lastPub, news, wm, runs>>
        /\ UNCHANGED diffVars

\* the adapter returned the upstream list
FetchOk(c) ==
    /\ loc[c].pc = "scan"
    /\ ScanStep(c, feed[loc[c].sidx], FALSE)

\* variant: the exception of the adapter leaves cmd_collect
FetchRaise_abort(c) ==
    /\ loc[c].pc = "scan"
    /\ loc' = [loc EXCEPT ![c] = IdleLocals]
    /\ UNCHANGED <<backend, feed, lastPub, news, wm, runs>>
    /\ UNCHANGED diffVars

\* the adapter raised (network / parse error): logged, source skipped
FetchRaise(c) ==
    /\ loc[c].pc = "scan"
    /\ ScanStep(c, <<>>, TRUE)

\* the adapter swallowed its failure and returned [] (fetch_idx_announcements
\* after both methods failed, fetch_stockbit_news on non-200)
FetchEmpty(c) ==
    /\ loc[c].pc = "scan"
    /\ feed[loc[c].sidx] # <<>>
    /\ ScanStep(c, <<>>, FALSE)

\* lines 126-144: one classifier batch; result is what filter_news_batch
\* returned for the batch.  After the last batch the relevant list is sorted.
FilterStep(c, result, failOpen) ==
    LET L == loc[c]
        rel == L.relevant \o result
        last == L.bidx + batch_size >= Len(L.parsed)
        L1 == [L EXCEPT !.bidx = @ + batch_size,
                        !.failed = IF failOpen THEN @ \cup {"filter"} ELSE @]
    IN  /\ loc' = [loc EXCEPT ![c] =
                     IF ~last THEN [L1 EXCEPT !.relevant = rel]
                     ELSE [L1 EXCEPT !.relevant = SortDesc(rel), !.ridx = 1,
                                     !.pc = IF rel = <<>> THEN "savestate"
                                            ELSE "store"]]
        /\ UNCHANGED <<backend, feed, lastPub, news, wm, runs>>
        /\ UNCHANGED diffVars

Batch(c) ==
    SubSeq(loc[c].parsed, loc[c].bidx + 1,
           IF loc[c].bidx + batch_size < Len(loc[c].parsed)
           THEN loc[c].bidx + batch_size ELSE Len(loc[c].parsed))

\* llm._run_filter, well-formed response: the entries whose result item says
\* relevant, here the positions idx of the batch
FilterOk(c) ==
    /\ loc[c].pc = "filter"
    /\ \E idx \in SUBSET (1..Len(Batch(c))) :
          FilterStep(c, SelectIdx(Batch(c), idx, 1), FALSE)

\* llm._run_filter, fail-open: the call raised, the text is not JSON, or
\* `results` is not a list: the whole batch is returned
FilterFailOpen(c) ==
    /\ loc[c].pc = "filter"
    /\ FilterStep(c, Batch(c), TRUE)

\* lines 174-190: the record built from a relevant entry
MakeRecord(c, entry) ==
    [id |-> None,
     url |-> entry.url,
     title |-> entry.title,
     published_at |-> entry.published_at,
     source_id |-> entry.source_id,
     status |-> "raw"]

\* variant: the record just written is not found
get_by_id_none(db, news_id) == None

\* JSONStore.get_by_id / SupabaseDB.get_by_id by full id
get_by_id(db, news_id) ==
    IF \E i \in 1..Len(db) : db[i].id = news_id
    THEN Some(db[CHOOSE i \in 1..Len(db) : db[i].id = news_id])
    ELSE None

\* lines 155-210: one iteration of the loop over relevant: store.save, and on
\* success store.get_by_id (which reloads JSONStore's cache)
StoreStep(c, insert_ok) ==
    LET L == loc[c]
        entry == L.relevant[L.ridx]
        r == save(backend, news, L.urls_cache, L.titles_cache,
                  MakeRecord(c, entry), insert_ok)
        saved == get_by_id(r.db, generate_id(entry.url))
        ins == IF r.ret /\ saved # None
               THEN Append(L.inserted_records, The(saved))
               ELSE L.inserted_records
        reload == r.ret /\ backend = "json"
    IN  /\ news' = r.db
        /\ loc' = [loc EXCEPT ![c] =
                     [L EXCEPT !.ret = Some(r.ret),
                               !.urls_cache = IF reload THEN Some(AllUrls(r.db)) ELSE r.uc,
                               !.titles_cache = IF reload THEN Some(AllTitles(r.db)) ELSE r.tc,
                               !.inserted_records = ins,
                               !.ridx = @ + 1,
                               !.failed = IF insert_ok THEN @ ELSE @ \cup {"insert"},
                               !.pc = IF L.ridx < Len(L.relevant) THEN "store"
                                      ELSE IF ins # <<>> THEN "notify"
                                      ELSE "savestate"]]
        /\ UNCHANGED <<backend, feed, lastPub, wm, runs>>
        /\ UNCHANGED diffVars

\* store.save where every write that is attempted succeeds
StoreSave(c) ==
    /\ loc[c].pc = "store"
    /\ StoreStep(c, TRUE)

\* SupabaseDB.save, lines 158-165: the candidate passed both gates and the
\* insert raised; save logs it and returns False
StoreInsertFails(c) ==
    /\ loc[c].pc = "store"
    /\ backend = "supabase"
    /\ save(backend, news, loc[c].urls_cache, loc[c].titles_cache,
            MakeRecord(c, loc[c].relevant[loc[c].ridx]), TRUE).ret
    /\ StoreStep(c, FALSE)

\* lines 213-219: notify_new_articles(inserted_records); whether the send
\* succeeds or raises, the failure is only logged and the cycle goes on
Notify(c) ==
    /\ loc[c].pc = "notify"
    /\ loc' = [loc EXCEPT ![c] =
                 [@ EXCEPT !.pc = "savestate",
                           !.handed = Some(loc[c].inserted_records)]]
    /\ UNCHANGED <<backend, feed, lastPub, news, wm, runs>>
    /\ UNCHANGED diffVars

\* variant: the exception of the notification leaves cmd_collect
NotifyRaises_abort(c) ==
    /\ loc[c].pc = "notify"
    /\ loc' = [loc EXCEPT ![c] =
                 [@ EXCEPT !.pc = "done",
                           !.handed = Some(loc[c].inserted_records),
                           !.failed = @ \cup {"notify"}]]
    /\ UNCHANGED <<backend, feed, lastPub, news, wm, runs>>
    /\ UNCHANGED diffVars

\* lines 215-219: the import of bot or notify_new_articles raised; the except
\* clause logs a warning and the cycle goes on to line 221
NotifyRaises(c) ==
    /\ loc[c].pc = "notify"
    /\ loc' = [loc EXCEPT ![c] =
                 [@ EXCEPT !.pc = "savestate",
                           !.handed = Some(loc[c].inserted_records),
                           !.failed = @ \cup {"notify"}]]
    /\ UNCHANGED <<backend, feed, lastPub, news, wm, runs>>
    /\ UNCHANGED diffVars

\* variant: only the first triple's top link is written
SetTops_first(state, all_new, k) ==
    IF all_new = <<>> THEN state
    ELSE [state EXCEPT ![all_new[1].source] = all_new[1].top_link]

RECURSIVE SetTops(_, _, _)
\* lines 222-228: state[sid] = {last_top_link: top_link, ...} for each triple
SetTops(state, all_new, k) ==
    IF k > Len(all_new) THEN state
    ELSE SetTops([state EXCEPT ![all_new[k].source] = all_new[k].top_link],
                 all_new, k + 1)

\* lines 221-229: update the map and save_state(state, db)
SaveState(c) ==
    /\ loc[c].pc = "savestate"
    /\ LET state == SetTops(loc[c].state, loc[c].all_new, 1)
       IN  /\ \E rows_ok \in SUBSET Sources :
                 /\ backend = "json" => rows_ok = Sources
                 /\ wm' = save_state(backend, wm, state, rows_ok)
                 /\ loc' = [loc EXCEPT ![c] =
                              [@ EXCEPT !.pc = "done", !.state = state,
                                        !.upsert_failed =
                                            {s \in Sources \ rows_ok : state[s] # NoLink}]]
    /\ UNCHANGED <<backend, feed, lastPub, news, runs>>
    /\ UNCHANGED diffVars

\* lines 231-244 / line 82: cmd_collect returns
Return(c) ==
    /\ loc[c].pc = "done"
    /\ loc' = [loc EXCEPT ![c] = IdleLocals]
    /\ UNCHANGED <<backend, feed, lastPub, news, wm, runs>>
    /\ UNCHANGED diffVars

\* The cycle is interrupted before save_state: an exception that cmd_collect
\* does not catch (store read or file write error) or the process is killed.
\* scheduler._job_collect logs it; the locals are gone.
Crash(c) ==
    /\ loc[c].pc \in {"scan", "filter", "store", "notify", "savestate"}
    /\ loc' = [loc EXCEPT ![c] = IdleLocals]
    /\ UNCHANGED <<backend, feed, lastPub, news, wm, runs>>
    /\ UNCHANGED diffVars

RECURSIVE AnalyzeFrom(_, _, _, _)
\* the loop of cmd_analyze over items from position i on
AnalyzeFrom(b, db, i, update_ok) ==
    IF i > Len(db) THEN db
    ELSE AnalyzeFrom(b,
                     IF db[i].status = "raw"
                     THEN update(b, db, [db[i] EXCEPT !.status = "analyzed"], update_ok)
                     ELSE db,
                     i + 1, update_ok)

\* commands.cmd_analyze(target = "all"), lines 337-383: every raw record is
\* analysed and written back with status "analyzed" through store.update.
\* update touches neither URLs nor titles, so it is taken between cycles.
Analyze ==
    /\ Idle
    /\ \E i \in 1..Len(news) : news[i].status = "raw"
    /\ \E update_ok \in BOOLEAN :
          news' = AnalyzeFrom(backend, news, 1, update_ok)
    /\ UNCHANGED <<backend, feed, lastPub, wm, runs, loc>>
    /\ UNCHANGED diffVars

\* Cycles that do not overlap behave alike whoever triggered them: each call
\* of cmd_collect has fresh locals and a fresh store object.  The sequential
\* specification runs them as the scheduler's.
SeqCycles == {"sched"}

Next ==
    \/ \E s \in Sources, l \in Links : Publish(s, l)
    \/ \E c \in SeqCycles : Start(c)
    \/ \E c \in Cycles : FetchOk(c)
    \/ \E c \in Cycles : FetchRaise(c)
    \/ \E c \in Cycles : FetchEmpty(c)
    \/ \E c \in Cycles : FilterOk(c)
    \/ \E c \in Cycles : FilterFailOpen(c)
    \/ \E c \in Cycles : StoreSave(c)
    \/ \E c \in Cycles : StoreInsertFails(c)
    \/ \E c \in Cycles : Notify(c)
    \/ \E c \in Cycles : NotifyRaises(c)
    \/ \E c \in Cycles : SaveState(c)
    \/ \E c \in Cycles : Return(c)
    \/ \E c \in Cycles : Crash(c)
    \/ Analyze

Spec == Init /\ [][Next]_vars

(***************************************************************************)
(* SpecDiff: get_new_entries on every bounded list and prior watermark, as   *)
(* one source goes through two fetches (commands.cmd_collect lines 66-77    *)
(* and 222-228).  Entries may lack a link or share one.                     *)
(***************************************************************************)
DiffLinks == 1..MaxDiffLink
DiffTitles == {T_aba, T_xy}
DiffEntries == [link : DiffLinks \cup {NoLink}, title : DiffTitles]

SeqsUpTo(S, n) == UNION {[1..k -> S] : k \in 0..n}

InitDiff ==
    /\ backend = "json"
    /\ feed = [s \in Sources |-> <<>>]
    /\ lastPub = [s \in Sources |-> 0]
    /\ news = <<>>
    /\ wm = EmptyState
    /\ runs = 0
    /\ loc = [c \in Cycles |-> IdleLocals]
    /\ dEntries \in SeqsUpTo(DiffEntries, MaxDiffLen)
    /\ dLast \in DiffLinks \cup {NoLink}
    /\ dNew = <<>>
    /\ dTop = NoLink
    /\ dPhase = "input"
    /\ dBoot = FALSE
    /\ store_urls_cache = None
    /\ store_titles_cache = None
    /\ store_arg = None
    /\ store_ret = None
    /\ store_calls = 0
    /\ AuxIdle

\* first fetch: entries handed to get_new_entries with the stored watermark
DiffFirst ==
    /\ dPhase = "input"
    /\ LET r == get_new_entries(dEntries, dLast)
       IN  /\ dNew' = r[1]
           /\ dTop' = r[2]
    /\ dPhase' = "first"
    /\ dBoot' = (dLast = NoLink)
    /\ UNCHANGED <<dEntries, dLast>>
    /\ UNCHANGED <<cycleVars, storeVars, auxVars>>

\* the cycle saves top_link as the watermark if there were new entries; the
\* next fetch returns the same list with one more entry e0 in front
DiffSecond(e0) ==
    /\ dPhase = "first"
    /\ Len(dEntries) < MaxDiffLen
    /\ LET stored == IF dNew # <<>> THEN dTop ELSE dLast
           entries == <<e0>> \o dEntries
           r == get_new_entries(entries, stored)
       IN  /\ dEntries' = entries
           /\ dLast' = stored
           /\ dNew' = r[1]
           /\ dTop' = r[2]
    /\ dPhase' = "second"
    /\ UNCHANGED dBoot
    /\ UNCHANGED <<cycleVars, storeVars, auxVars>>

NextDiff ==
    \/ DiffFirst
    \/ \E e0 \in DiffEntries : DiffSecond(e0)

SpecDiff == InitDiff /\ [][NextDiff]_vars

(***************************************************************************)
(* SpecStore: every bounded sequence of save and update calls made through   *)
(* one store object (JSONStore or SupabaseDB), from an empty store.           *)
(***************************************************************************)
StoreUrls == 1..MaxStoreUrl

InitStore ==
    /\ backend \in {"json", "supabase"}
    /\ feed = [s \in Sources |-> <<>>]
    /\ lastPub = [s \in Sources |-> 0]
    /\ news = <<>>
    /\ wm = EmptyState
    /\ runs = 0
    /\ loc = [c \in Cycles |-> IdleLocals]
    /\ DiffIdle

\* the record cmd_collect would hand to save for this URL and title
StoreRecord(url, title) ==
    MakeRecord("manual", [url |-> url, title |-> title,
                          published_at |-> isoformat(PublishedOf(url)),
                          source_id |-> 1])

\* store.save(record) on the store object
SaveCall(url, title, insert_ok) ==
    LET r == save(backend, news, store_urls_cache, store_titles_cache,
                  StoreRecord(url, title), insert_ok)
    IN  /\ store_calls < MaxCalls
        /\ news' = r.db
        /\ store_urls_cache' = r.uc
        /\ store_titles_cache' = r.tc
        /\ store_arg' = Some(StoreRecord(url, title))
        /\ store_ret' = Some(r.ret)
        /\ store_calls' = store_calls + 1
        /\ UNCHANGED <<backend, feed, lastPub, wm, runs, loc>>
        /\ UNCHANGED <<dEntries, dLast, dNew, dTop, dPhase, dBoot, auxVars>>

\* save where every write that is attempted succeeds
StoreSaveOk(url, title) ==
    /\ store_calls < MaxCalls
    /\ SaveCall(url, title, TRUE)

\* SupabaseDB.save whose insert raises after both gates were passed
StoreSaveInsertFails(url, title) ==
    /\ backend = "supabase"
    /\ save(backend, news, store_urls_cache, store_titles_cache,
            StoreRecord(url, title), TRUE).ret
    /\ SaveCall(url, title, FALSE)

\* store.update(record) as cmd_analyze calls it: the record read through the
\* store object comes back with status "analyzed".  Reading fills the caches
\* of a JSONStore; a write that went through clears the caches.
StoreUpdate(i, update_ok) ==
    /\ store_calls < MaxCalls
    /\ i \in 1..Len(news)
    /\ news[i].status = "raw"
    /\ backend = "json" => update_ok
    /\ LET record == [news[i] EXCEPT !.status = "analyzed"]
           written == backend = "json" \/ update_ok
       IN
        /\ news' = update(backend, news, record, update_ok)
        /\ store_urls_cache' = IF written THEN None ELSE store_urls_cache
        /\ store_titles_cache' = IF written THEN None ELSE store_titles_cache
        /\ store_arg' = Some(record)
        /\ store_ret' = None
        /\ store_calls' = store_calls + 1
        /\ UNCHANGED <<backend, feed, lastPub, wm, runs, loc>>
        /\ UNCHANGED <<dEntries, dLast, dNew, dTop, dPhase, dBoot, auxVars>>

NextStore ==
    \/ \E url \in StoreUrls, title \in Titles : StoreSaveOk(url, title)
    \/ \E url \in StoreUrls, title \in Titles : StoreSaveInsertFails(url, title)
    \/ \E i \in 1..MaxCalls, update_ok \in BOOLEAN : StoreUpdate(i, update_ok)

SpecStore == InitStore /\ [][NextStore]_vars

(***************************************************************************)
(* SpecE2E: cmd_collect on the end-to-end scenario.  Each of the two        *)
(* sources has E2ENew entries above its watermark; article s (s = 1, 2) is  *)
(* the former top entry of source s, and the articles of E2ELinks alternate  *)
(* between the sources.  One record is stored, the former top entry of      *)
(* source 1, and it carries the headline of one of the new articles.         *)
(***************************************************************************)
\* the list source s returns, newest first, down to its former top entry
E2EFeed(s, dup) ==
    [j \in 1..(E2ENew + 1) |->
        LET l == s + 2 * (E2ENew + 1 - j)
        IN  [link |-> l,
             title |-> IF l \in E2ELinks THEN E2ETitle(l)
                       ELSE IF l = 1 THEN E2ETitle(dup) ELSE T_xy,
             published |-> PublishedOf(l)]]

InitE2E ==
    /\ backend \in {"json", "supabase"}
    /\ \E dup \in E2ELinks :
          /\ feed = [s \in Sources |-> E2EFeed(s, dup)]
          /\ news = <<[id |-> generate_id(1), url |-> 1, title |-> E2ETitle(dup),
                       published_at |-> isoformat(PublishedOf(1)),
                       source_id |-> 1, status |-> "raw"]>>
    /\ lastPub = [s \in Sources |-> s + 2 * E2ENew]
    /\ wm = [s \in Sources |-> s]
    /\ runs = MaxRuns - 1       \* the cycles that stored the record have run
    /\ loc = [c \in Cycles |-> IdleLocals]
    /\ DiffIdle

NextE2E ==
    \/ \E c \in SeqCycles : Start(c)
    \/ \E c \in Cycles : FetchOk(c)
    \/ \E c \in Cycles : FilterOk(c)
    \/ \E c \in Cycles : StoreSave(c)
    \/ \E c \in Cycles : Notify(c)
    \/ \E c \in Cycles : SaveState(c)
    \/ \E c \in Cycles : Return(c)

SpecE2E == InitE2E /\ [][NextE2E]_vars

(***************************************************************************)
(* SpecFilter: llm._run_filter on every bounded batch and every bounded      *)
(* classifier response.                                                    *)
(*                                                                         *)
(* What groq.chat does is a record: kind "raise" (the call raised) or       *)
(* "text" (it returned a string).  data is what json.loads makes of the     *)
(* string: t = "notjson" (json.loads raises), "null", "list" or "dict".     *)
(* For a dict, has_results tells whether the key `results` is present,      *)
(* results_t is the type of its value and items its elements when it is a   *)
(* list.  An element has t = "str", "num" or "dict"; for a dict, index_t    *)
(* is "absent", "int" or "str" and relevant is "absent", "true" or "false". *)
(***************************************************************************)
FilterItem(t, index_t, index, relevant) ==
    [t |-> t, index_t |-> index_t, index |-> index, relevant |-> relevant]

FilterItems ==
    {FilterItem("str", "absent", 0, "absent"), FilterItem("num", "absent", 0, "absent")}
    \cup {FilterItem("dict", "absent", 0, rel) : rel \in {"absent", "true", "false"}}
    \cup {FilterItem("dict", "str", 0, rel) : rel \in {"absent", "true", "false"}}
    \cup {FilterItem("dict", "int", i, rel) :
             i \in 0..(MaxBatch + 1), rel \in {"absent", "true", "false"}}

FilterData(t, has_results, results_t, items) ==
    [t |-> t, has_results |-> has_results, results_t |-> results_t, items |-> items]

FilterDatas ==
    {FilterData(t, FALSE, "null", <<>>) : t \in {"notjson", "null", "list", "dict"}}
    \cup {FilterData("dict", TRUE, rt, <<>>) : rt \in {"null", "str", "dict"}}
    \cup {FilterData("dict", TRUE, "list", items) :
             items \in SeqsUpTo(FilterItems, MaxItems)}

FilterResponses ==
    {[kind |-> "raise", data |-> FilterData("null", FALSE, "null", <<>>)]}
    \cup {[kind |-> "text", data |-> d] : d \in FilterDatas}

RECURSIVE LoopResults_any(_, _, _, _)
\* variant: the `relevant` field of an element is not read
LoopResults_any(entries, items, k, relevant) ==
    IF k > Len(items) THEN [raised |-> FALSE, relevant |-> relevant]
    ELSE LET r == items[k]
         IN  IF r.t # "dict"
             THEN LoopResults_any(entries, items, k + 1, relevant)
             ELSE IF r.index_t = "str"
             THEN [raised |-> TRUE, relevant |-> relevant]
             ELSE LET idx == (IF r.index_t = "absent" THEN 0 ELSE r.index) - 1
                  IN  IF 0 <= idx /\ idx < Len(entries)
                      THEN LoopResults_any(entries, items, k + 1,
                                           Append(relevant, entries[idx + 1]))
                      ELSE LoopResults_any(entries, items, k + 1, relevant)

RECURSIVE LoopResults(_, _, _, _)
\* lines 264-293: the loop over results_list from element k on; raised tells
\* that an exception left the loop
LoopResults(entries, items, k, relevant) ==
    IF k > Len(items) THEN [raised |-> FALSE, relevant |-> relevant]
    ELSE LET r == items[k]
         IN  IF r.t # "dict"
             THEN LoopResults(entries, items, k + 1, relevant)   \* continue
             ELSE IF r.index_t = "str"
             THEN [raised |-> TRUE, relevant |-> relevant]       \* str - 1
             ELSE LET idx == (IF r.index_t = "absent" THEN 0 ELSE r.index) - 1
                  IN  IF 0 <= idx /\ idx < Len(entries) /\ r.relevant = "true"
                      THEN LoopResults(entries, items, k + 1,
                                       Append(relevant, entries[idx + 1]))
                      ELSE LoopResults(entries, items, k + 1, relevant)

\* variant: a `results` value that is not a list empties the batch
run_filter_drop(entries, resp) ==
    IF resp.kind = "raise" THEN entries
    ELSE IF resp.data.t = "notjson" THEN entries
    ELSE IF resp.data.t # "dict" THEN entries
    ELSE IF resp.data.has_results /\ resp.data.results_t # "list" THEN <<>>
    ELSE LET r == LoopResults(entries,
                              IF resp.data.has_results THEN resp.data.items ELSE <<>>,
                              1, <<>>)
         IN  IF r.raised THEN entries ELSE r.relevant

\* llm._run_filter(groq, system, user, entries): the list it returns
run_filter(entries, resp) ==
    IF resp.kind = "raise" THEN entries                  \* groq.chat raised
    ELSE IF resp.data.t = "notjson" THEN entries         \* json.loads raised
    ELSE IF resp.data.t # "dict" THEN entries            \* data.get raised
    ELSE IF resp.data.has_results /\ resp.data.results_t # "list" THEN entries
    ELSE LET r == LoopResults(entries,
                              IF resp.data.has_results THEN resp.data.items ELSE <<>>,
                              1, <<>>)
         IN  IF r.raised THEN entries ELSE r.relevant

\* cmd_collect and everything else are at rest
CollectorIdle ==
    /\ backend = "json"
    /\ feed = [s \in Sources |-> <<>>]
    /\ lastPub = [s \in Sources |-> 0]
    /\ news = <<>>
    /\ wm = EmptyState
    /\ runs = 0
    /\ loc = [c \in Cycles |-> IdleLocals]
    /\ dEntries = <<>>
    /\ dLast = NoLink
    /\ dNew = <<>>
    /\ dTop = NoLink
    /\ dPhase = "off"
    /\ dBoot = FALSE
    /\ store_urls_cache = None
    /\ store_titles_cache = None
    /\ store_arg = None
    /\ store_ret = None
    /\ store_calls = 0

\* a batch of n parsed entries
FilterBatch(n) == [i \in 1..n |-> [url |-> i, title |-> T_xy]]

InitFilter ==
    /\ CollectorIdle
    /\ ExtIdle
    /\ ScrapeIdle
    /\ BrowserIdle
    /\ fEntries \in {FilterBatch(n) : n \in 1..MaxBatch}
    /\ fResp \in {Some(r) : r \in FilterResponses}
    /\ fOut = None
    /\ fPhase = "input"

\* the call _run_filter(groq, system, user, entries)
RunFilter ==
    /\ fPhase = "input"
    /\ fOut' = Some(run_filter(fEntries, The(fResp)))
    /\ fPhase' = "done"
    /\ UNCHANGED <<fEntries, fResp, sc, bm, th, extVars>>
    /\ UNCHANGED <<cycleVars, storeVars>>
    /\ UNCHANGED <<dEntries, dLast, dNew, dTop, dPhase, dBoot>>

NextFilter == RunFilter

SpecFilter == InitFilter /\ [][NextFilter]_vars

(***************************************************************************)
(* SpecScrape: one call of scraper.scrape_article, one action per strategy  *)
(* outcome.                                                                *)
(*                                                                         *)
(* A text is a sequence of runs [ch, n]: n times the character ch, where    *)
(* adjacent runs have different characters.  "a" stands for any character   *)
(* that is not whitespace.                                                 *)
(***************************************************************************)
TextRuns ==
    [ch : {"a", " ", "\n"},
     n : {3, MIN_CONTENT_LENGTH - 3, MIN_CONTENT_LENGTH}]

Texts ==
    {t \in SeqsUpTo(TextRuns, MaxTextRuns) :
        \A i \in 1..(Len(t) - 1) : t[i].ch # t[i + 1].ch}

RECURSIVE TextLen(_)
\* len(text)
TextLen(t) == IF t = <<>> THEN 0 ELSE Head(t).n + TextLen(Tail(t))

RECURSIVE lstrip(_)
lstrip(t) ==
    IF t # <<>> /\ Head(t).ch \in {" ", "\n"} THEN lstrip(Tail(t)) ELSE t

RECURSIVE rstrip(_)
rstrip(t) ==
    IF t # <<>> /\ t[Len(t)].ch \in {" ", "\n"}
    THEN rstrip(SubSeq(t, 1, Len(t) - 1)) ELSE t

\* helpers.clean_text: three or more newlines become two, two or more
\* blanks become one, then str.strip()
clean_text(t) ==
    LET sub == [i \in 1..Len(t) |->
                  IF t[i].ch = "\n" /\ t[i].n >= 3 THEN [t[i] EXCEPT !.n = 2]
                  ELSE IF t[i].ch = " " /\ t[i].n >= 2 THEN [t[i] EXCEPT !.n = 1]
                  ELSE t[i]]
    IN  rstrip(lstrip(sub))

ScrapeStart(pdf) ==
    [pc |-> "requests",     \* requests, newspaper, selectors, browser, inbrowser, done
     pdf |-> pdf,           \* is_pdf_url(url)
     art_text |-> None,     \* art.text after art.parse()
     extracted |-> None,    \* log: the sufficient text taken from the requests response
     browser_calls |-> 0,   \* log: calls of _run_browser_html / _run_browser_pdf
     result |-> None,       \* what scrape_article returned: a text, or None
     raised |-> FALSE]      \* an exception left scrape_article

InitScrape ==
    /\ CollectorIdle
    /\ ExtIdle
    /\ FilterIdle
    /\ BrowserIdle
    /\ sc \in {ScrapeStart(pdf) : pdf \in BOOLEAN}

ScrapeStep(next) ==
    /\ sc' = next
    /\ UNCHANGED <<fEntries, fResp, fOut, fPhase, bm, th, extVars>>
    /\ UNCHANGED <<cycleVars, storeVars>>
    /\ UNCHANGED <<dEntries, dLast, dNew, dTop, dPhase, dBoot>>

\* _scrape_html lines 367-381 / _scrape_pdf lines 415-421: the request raised,
\* or the response is not one the light path uses (status, challenge page,
\* content type)
RequestsFails ==
    /\ sc.pc = "requests"
    /\ ScrapeStep([sc EXCEPT !.pc = "browser"])

\* _scrape_html line 381: status 200 and no challenge marker
RequestsOkHtml ==
    /\ sc.pc = "requests"
    /\ ~sc.pdf
    /\ ScrapeStep([sc EXCEPT !.pc = "newspaper"])

\* variant: the browser is tried whatever newspaper extracted
NewspaperParse_fallthrough(text) ==
    /\ sc.pc = "newspaper"
    /\ ScrapeStep([sc EXCEPT !.pc = "browser", !.art_text = Some(text),
                             !.extracted = IF TextLen(text) >= MIN_CONTENT_LENGTH
                                           THEN Some(text) ELSE None])

\* _scrape_html lines 383-388: art.text after art.parse()
NewspaperParse(text) ==
    /\ sc.pc = "newspaper"
    /\ ScrapeStep(IF text # <<>> /\ TextLen(text) >= MIN_CONTENT_LENGTH
                  THEN [sc EXCEPT !.pc = "done", !.art_text = Some(text),
                                  !.extracted = Some(text),
                                  !.result = Some(clean_text(text))]
                  ELSE [sc EXCEPT !.pc = "selectors", !.art_text = Some(text)])

\* Article / set_html / parse raised: caught at line 399, on to the browser
NewspaperRaises ==
    /\ sc.pc = "newspaper"
    /\ ScrapeStep([sc EXCEPT !.pc = "browser"])

\* _scrape_html lines 391-394: _extract_from_selectors returned r, a text of
\* at least MIN_CONTENT_LENGTH characters or None
Selectors(r) ==
    /\ sc.pc = "selectors"
    /\ r # None => TextLen(The(r)) >= MIN_CONTENT_LENGTH
    /\ ScrapeStep(IF r # None /\ The(r) # <<>>
                     /\ TextLen(The(r)) >= MIN_CONTENT_LENGTH
                  THEN [sc EXCEPT !.pc = "done", !.extracted = r,
                                  !.result = Some(clean_text(The(r)))]
                  ELSE [sc EXCEPT !.pc = "browser"])

\* _scrape_pdf lines 421-425: extract_pdf_text_from_bytes gave text (already
\* through clean_text)
RequestsOkPdf(text) ==
    /\ sc.pc = "requests"
    /\ sc.pdf
    /\ LET cleaned == clean_text(text)
       IN  ScrapeStep(IF cleaned # <<>> /\ TextLen(cleaned) >= MIN_CONTENT_LENGTH
                      THEN [sc EXCEPT !.pc = "done", !.result = Some(cleaned)]
                      ELSE [sc EXCEPT !.pc = "browser"])

\* _run_browser_html lines 137-152 / _run_browser_pdf lines 242-256: the
\* imports, sync_playwright() and chromium.launch run outside the try
BrowserLaunch ==
    /\ sc.pc = "browser"
    /\ ScrapeStep([sc EXCEPT !.pc = "inbrowser", !.browser_calls = @ + 1])

\* the launch raised: nothing catches it up to the caller of scrape_article
BrowserLaunchRaises ==
    /\ sc.pc = "browser"
    /\ ScrapeStep([sc EXCEPT !.pc = "done", !.browser_calls = @ + 1,
                             !.raised = TRUE])

\* lines 154-237 / 259-354: the try block returned r (a text or None; every
\* exception inside it is caught and gives None), then finally browser.close()
BrowserExtract(r) ==
    /\ sc.pc = "inbrowser"
    /\ ScrapeStep([sc EXCEPT !.pc = "done",
                             !.result = IF r = None THEN None
                                        ELSE Some(clean_text(The(r)))])

\* browser.close() in the finally clause raised
BrowserCloseRaises ==
    /\ sc.pc = "inbrowser"
    /\ ScrapeStep([sc EXCEPT !.pc = "done", !.raised = TRUE])

NextScrape ==
    \/ RequestsFails
    \/ RequestsOkHtml
    \/ \E text \in Texts : NewspaperParse(text)
    \/ NewspaperRaises
    \/ \E r \in {None} \cup {Some(t) : t \in Texts} : Selectors(r)
    \/ \E text \in Texts : RequestsOkPdf(text)
    \/ BrowserLaunch
    \/ BrowserLaunchRaises
    \/ \E r \in {None} \cup {Some(t) : t \in Texts} : BrowserExtract(r)
    \/ BrowserCloseRaises

SpecScrape == InitScrape /\ [][NextScrape]_vars

(***************************************************************************)
(* SpecBrowser: browser.BrowserManager.get() and close() called from        *)
(* several threads, one action per step of a call.                          *)
(*                                                                         *)
(* bm.objs[i] is the i-th BrowserManager object constructed, bm.procs[p]    *)
(* the p-th browser process launched ("live" or "dead").  A process is      *)
(* released once close() has dropped the object that holds it.              *)
(***************************************************************************)
Threads == 1..MaxThreads

BrowserInit ==
    [instance |-> None,     \* cls._instance: None or the index of an object
     lock |-> None,         \* cls._lock: None or the thread that holds it
     objs |-> <<>>,
     procs |-> <<>>,
     released |-> {},       \* processes whose object close() has dropped
     epoch |-> 0,           \* log: closes that unset an instance so far
     gets |-> {},           \* log: what each get() returned, and in which epoch
     get_calls |-> 0,       \* log: calls of get() so far
     calls |-> 0]           \* log: calls of get() and close() so far

ThreadIdle ==
    [pc |-> "idle",         \* idle, get_lock, get_check, get_new, get_start,
                            \* get_ret, close_lock, close_body
     raised |-> FALSE,      \* the last call ended with an exception
     last |-> "none",       \* the last call that ended: none, get, close
     proc |-> None]         \* SpecSessions: the browser this thread's session launched

InitBrowser ==
    /\ CollectorIdle
    /\ ExtIdle
    /\ FilterIdle
    /\ ScrapeIdle
    /\ bm = BrowserInit
    /\ th = [t \in Threads |-> ThreadIdle]

BrowserStep(t, bm1, th1) ==
    /\ bm' = bm1
    /\ th' = [th EXCEPT ![t] = th1]
    /\ UNCHANGED <<fEntries, fResp, fOut, fPhase, sc, extVars>>
    /\ UNCHANGED <<cycleVars, storeVars>>
    /\ UNCHANGED <<dEntries, dLast, dNew, dTop, dPhase, dBoot>>

\* variant: the lock excludes nobody
LockFree_always(lock) == TRUE

\* threading.Lock: it can be acquired while no thread holds it
LockFree(lock) == lock = None

\* variant: close() leaves cls._instance as it is
ClearInstance_keeps(inst) == inst

\* close(), line 105: cls._instance = None
ClearInstance(inst) == None

\* a thread calls BrowserManager.get()
CallGet(t) ==
    /\ th[t].pc = "idle"
    /\ bm.calls < MaxBrowserCalls
    /\ BrowserStep(t, [bm EXCEPT !.calls = @ + 1, !.get_calls = @ + 1],
                   [th[t] EXCEPT !.pc = "get_lock", !.raised = FALSE])

\* line 31: with cls._lock
GetAcquire(t) ==
    /\ th[t].pc = "get_lock"
    /\ LockFree(bm.lock)
    /\ BrowserStep(t, [bm EXCEPT !.lock = Some(t)], [th[t] EXCEPT !.pc = "get_check"])

\* line 32: if cls._instance is None
GetCheck(t) ==
    /\ th[t].pc = "get_check"
    /\ BrowserStep(t, bm,
                   [th[t] EXCEPT !.pc = IF bm.instance = None THEN "get_new"
                                        ELSE "get_ret"])

\* line 33: cls._instance = cls()
GetNew(t) ==
    /\ th[t].pc = "get_new"
    /\ BrowserStep(t,
                   [bm EXCEPT !.objs = Append(@, [browser |-> None,
                                                  playwright |-> FALSE,
                                                  start_failed |-> FALSE]),
                              !.instance = Some(Len(bm.objs) + 1)],
                   [th[t] EXCEPT !.pc = "get_start"])

\* line 34: cls._instance._start() launched chromium
GetStartOk(t) ==
    /\ th[t].pc = "get_start"
    /\ bm.instance # None
    /\ BrowserStep(t,
                   [bm EXCEPT !.procs = Append(@, "live"),
                              !.objs[The(bm.instance)] =
                                  [@ EXCEPT !.browser = Some(Len(bm.procs) + 1),
                                            !.playwright = TRUE]],
                   [th[t] EXCEPT !.pc = "get_ret"])

\* line 34: _start raised (import, sync_playwright().start() or launch); the
\* with statement releases the lock and get() raises; cls._instance stays
GetStartRaises(t) ==
    /\ th[t].pc = "get_start"
    /\ \E pw_started \in BOOLEAN :
          BrowserStep(t,
                      [bm EXCEPT !.lock = None,
                                 !.objs = IF bm.instance = None THEN @
                                          ELSE [@ EXCEPT ![The(bm.instance)] =
                                                   [@ EXCEPT !.playwright = pw_started,
                                                             !.start_failed = TRUE]]],
                      [th[t] EXCEPT !.pc = "idle", !.raised = TRUE, !.last = "get"])

\* line 35: return cls._instance, and the lock is released
GetReturn(t) ==
    /\ th[t].pc = "get_ret"
    /\ BrowserStep(t,
                   [bm EXCEPT !.lock = None,
                              !.gets = @ \cup
                                  {[t |-> t, epoch |-> bm.epoch, inst |-> bm.instance,
                                    browser |-> IF bm.instance = None THEN None
                                                ELSE bm.objs[The(bm.instance)].browser]}],
                   [th[t] EXCEPT !.pc = "idle", !.last = "get"])

\* a thread calls BrowserManager.close()
CallClose(t) ==
    /\ th[t].pc = "idle"
    /\ bm.calls < MaxBrowserCalls
    /\ BrowserStep(t, [bm EXCEPT !.calls = @ + 1],
                   [th[t] EXCEPT !.pc = "close_lock", !.raised = FALSE])

\* line 95: with cls._lock
CloseAcquire(t) ==
    /\ th[t].pc = "close_lock"
    /\ LockFree(bm.lock)
    /\ BrowserStep(t, [bm EXCEPT !.lock = Some(t)], [th[t] EXCEPT !.pc = "close_body"])

\* lines 96-105 with no instance: nothing to do
CloseNothing(t) ==
    /\ th[t].pc = "close_body"
    /\ bm.instance = None
    /\ BrowserStep(t, [bm EXCEPT !.lock = None],
                   [th[t] EXCEPT !.pc = "idle", !.last = "close"])

\* lines 96-105 with an instance.  close_ok: _browser.close() did not raise
\* (or there was no browser); if it raised, _playwright.stop() is skipped
\* and the process may survive.  The exception is swallowed.
CloseInstance(t, close_ok, survives) ==
    /\ th[t].pc = "close_body"
    /\ bm.instance # None
    /\ close_ok => ~survives
    /\ bm.objs[The(bm.instance)].browser = None => close_ok
    /\ LET b == bm.objs[The(bm.instance)].browser
       IN  BrowserStep(t,
                       [bm EXCEPT !.lock = None,
                                  !.instance = ClearInstance(bm.instance),
                                  !.epoch = @ + 1,
                                  !.released = IF b = None THEN @ ELSE @ \cup {The(b)},
                                  !.procs = IF b # None /\ ~survives
                                            THEN [@ EXCEPT ![The(b)] = "dead"]
                                            ELSE @],
                       [th[t] EXCEPT !.pc = "idle", !.last = "close"])

NextBrowser ==
    \/ \E t \in Threads : CallGet(t)
    \/ \E t \in Threads : GetAcquire(t)
    \/ \E t \in Threads : GetCheck(t)
    \/ \E t \in Threads : GetNew(t)
    \/ \E t \in Threads : GetStartOk(t)
    \/ \E t \in Threads : GetStartRaises(t)
    \/ \E t \in Threads : GetReturn(t)
    \/ \E t \in Threads : CallClose(t)
    \/ \E t \in Threads : CloseAcquire(t)
    \/ \E t \in Threads : CloseNothing(t)
    \/ \E t \in Threads, close_ok, survives \in BOOLEAN :
          CloseInstance(t, close_ok, survives)

SpecBrowser == InitBrowser /\ [][NextBrowser]_vars

(***************************************************************************)
(* SpecSched: the scheduler thread, scheduler._run_scheduler.  It sleeps,   *)
(* runs _job_collect once and then again whenever the job is due.  A call   *)
(* to Supabase succeeds or raises; the local files are read without error.  *)
(* What cmd_collect does after load_state is one step here: it returns,     *)
(* having stored some records, or it raises.                               *)
(***************************************************************************)
\* no other specification is under way
CoreIdle == CollectorIdle /\ FilterIdle /\ ScrapeIdle /\ BrowserIdle

\* the thread before it runs its target, and the environment it runs in
SchedStart(supabase, sources_file, groq_key) ==
    [pc |-> "startup",              \* startup, get_store, stats, load_env,
                                    \* collect_store, load_sources, load_state,
                                    \* body, after, pending, dead
     supabase |-> supabase,         \* SUPABASE_URL and SUPABASE_SERVICE_KEY are set
     sources_file |-> sources_file, \* sources.json exists
     groq_key |-> groq_key,         \* GROQ_API_KEY is set
     jobs |-> 0,                    \* calls of _job_collect so far
     total |-> 0,                   \* persisted: number of stored records
     store |-> "none",              \* the store object get_store returned
     before |-> 0,                  \* _job_collect: before
     new_count |-> 0,               \* _job_collect: new_count
     ended |-> "none"]              \* log: how the last job ended: ok (it
                                    \* returned), caught (line 43 logged an
                                    \* exception), exit (SystemExit left it)

InitSched ==
    /\ CoreIdle
    /\ AdminIdle
    /\ IdxIdle
    /\ ChallengeIdle
    /\ AnalyzeIdle
    /\ FetchIdle
    /\ DateIdle
    /\ BotIdle
    /\ sch \in {SchedStart(supabase, sources_file, groq_key) :
                  supabase \in BOOLEAN, sources_file \in BOOLEAN,
                  groq_key \in BOOLEAN}

SchedStep(next) ==
    /\ sch' = next
    /\ UNCHANGED <<coreVars, pd, ev, fh, az, cw, ix, ad>>

\* store.get_store: SupabaseDB when it is configured and its constructor
\* does not raise, JSONStore otherwise
get_store(supabase, init_ok) ==
    IF supabase /\ init_ok THEN "supabase" ELSE "json"

\* _job_collect, lines 21 and 43-44: `except Exception` catches and logs an
\* Exception; SystemExit is a BaseException and leaves the function
JobHandler(exc) == IF exc = "Exception" THEN "caught" ELSE "exit"

\* an exception exc was raised inside _job_collect.  Caught, the job is over
\* and the loop of _run_scheduler goes on; not caught, it leaves
\* _run_scheduler through schedule.run_pending and the thread ends.
JobRaises(exc) ==
    LET h == JobHandler(exc)
    IN  [sch EXCEPT !.pc = IF h = "caught" THEN "pending" ELSE "dead",
                    !.ended = h]

\* lines 52-53 and 56-60: the first call after the startup delay, then a
\* call whenever schedule.run_pending finds the job due
JobStart ==
    /\ sch.pc \in {"startup", "pending"}
    /\ sch.jobs < MaxJobs
    /\ SchedStep([sch EXCEPT !.pc = "get_store", !.jobs = @ + 1,
                             !.store = "none", !.before = 0, !.new_count = 0])

\* line 26: store = get_store()
JobGetStore(init_ok) ==
    /\ sch.pc = "get_store"
    /\ init_ok \/ sch.supabase
    /\ SchedStep([sch EXCEPT !.pc = "stats",
                             !.store = get_store(sch.supabase, init_ok)])

\* line 27: before = store.stats().get("total", 0); SupabaseDB.stats falls
\* back from the view to get_all, which raises when the table cannot be read
JobStats(ok) ==
    /\ sch.pc = "stats"
    /\ ok \/ sch.store = "supabase"
    /\ SchedStep(IF ok THEN [sch EXCEPT !.pc = "load_env", !.before = sch.total]
                 ELSE JobRaises("Exception"))

\* line 29: groq_api_key = load_env(); config.load_env calls sys.exit(1)
\* when GROQ_API_KEY is not set
JobLoadEnv ==
    /\ sch.pc = "load_env"
    /\ SchedStep(IF sch.groq_key THEN [sch EXCEPT !.pc = "collect_store"]
                 ELSE JobRaises("SystemExit"))

\* cmd_collect lines 33-37: GroqClient, store = get_store(), db
JobCollectStore(init_ok) ==
    /\ sch.pc = "collect_store"
    /\ init_ok \/ sch.supabase
    /\ SchedStep([sch EXCEPT !.pc = "load_sources",
                             !.store = get_store(sch.supabase, init_ok)])

\* sources.load_sources: with Supabase configured the active sources are
\* read from it; when that raises, or without Supabase, sources.json is
\* read, and sys.exit(1) is called when the file does not exist
load_sources(supabase, query_ok, sources_file) ==
    IF supabase /\ query_ok THEN "loaded"
    ELSE IF sources_file THEN "loaded"
    ELSE "SystemExit"

\* cmd_collect line 39: sources = load_sources()
JobLoadSources(query_ok) ==
    /\ sch.pc = "load_sources"
    /\ query_ok \/ sch.supabase
    /\ SchedStep(IF load_sources(sch.supabase, query_ok, sch.sources_file) = "loaded"
                 THEN [sch EXCEPT !.pc = "load_state"]
                 ELSE JobRaises("SystemExit"))

\* cmd_collect line 40: state = load_state(db); SupabaseDB.load_state raises
\* when the table cannot be read, state.load_state reads state.json
JobLoadState(ok) ==
    /\ sch.pc = "load_state"
    /\ ok \/ sch.store = "supabase"
    /\ SchedStep(IF ok THEN [sch EXCEPT !.pc = "body"]
                 ELSE JobRaises("Exception"))

\* cmd_collect lines 43-232: the four phases and save_state; the cycle
\* returns with new_records records stored, or an exception leaves it
JobBody(ok, new_records) ==
    /\ sch.pc = "body"
    /\ ok \/ new_records = 0
    /\ SchedStep(IF ok THEN [sch EXCEPT !.pc = "after",
                                        !.total = @ + new_records]
                 ELSE JobRaises("Exception"))

\* lines 33-41: store = get_store(); after = store.stats()...; new_count
JobAfter(init_ok, ok) ==
    /\ sch.pc = "after"
    /\ init_ok \/ sch.supabase
    /\ ok \/ get_store(sch.supabase, init_ok) = "supabase"
    /\ SchedStep(IF ok THEN [sch EXCEPT !.pc = "pending", !.ended = "ok",
                                        !.store = get_store(sch.supabase, init_ok),
                                        !.new_count = sch.total - sch.before]
                 ELSE JobRaises("Exception"))

NextSched ==
    \/ JobStart
    \/ \E init_ok \in BOOLEAN : JobGetStore(init_ok)
    \/ \E ok \in BOOLEAN : JobStats(ok)
    \/ JobLoadEnv
    \/ \E init_ok \in BOOLEAN : JobCollectStore(init_ok)
    \/ \E query_ok \in BOOLEAN : JobLoadSources(query_ok)
    \/ \E ok \in BOOLEAN : JobLoadState(ok)
    \/ \E ok \in BOOLEAN, new_records \in 0..1 : JobBody(ok, new_records)
    \/ \E init_ok, ok \in BOOLEAN : JobAfter(init_ok, ok)

SpecSched == InitSched /\ [][NextSched]_vars

(***************************************************************************)
(* SpecDate: one call of helpers.parse_published_date(entry, source_type).  *)
(*                                                                         *)
(* A wall-clock time is a whole number of hours counted from a fixed        *)
(* midnight, negative before it.  A timestamp string is its form, the wall  *)
(* time it shows and the offset it carries (None: a naive timestamp; "Z"    *)
(* is the offset 0).  The forms:                                           *)
(*   T       "2024-05-01T10:00:00" with or without an offset               *)
(*   space   "2024-05-01 10:00:00" with or without an offset               *)
(*   web     "01 May 2024 10:00:00"                                        *)
(*   rfc822  "Wed, 01 May 2024 10:00:00 +0700"                             *)
(*   epoch   "/Date(1714532400000)/", wall is the instant in UTC           *)
(*   empty   "" or a missing key;  zero  "0000-00-00 00:00:00";            *)
(*   junk    a string that is not a date                                   *)
(* The result is the instant in UTC that the returned ISO string shows, or  *)
(* now: the function returned the current time.                            *)
(***************************************************************************)
WIB == 7                        \* timezone(timedelta(hours=7))
Walls == {1, 10}
Offsets == {0 - 5, 0, WIB}
SourceTypes == {"rss", "idx_api", "stockbit_api"}

Raw(form, wall, off) == [form |-> form, wall |-> wall, off |-> off]
EmptyRaw == Raw("empty", 0, None)

Raws ==
    {Raw(form, w, off) : form \in {"T", "space"}, w \in Walls,
                         off \in {None} \cup {Some(o) : o \in Offsets}}
    \cup {Raw("web", w, None) : w \in Walls}
    \cup {Raw("rfc822", w, Some(o)) : w \in Walls, o \in Offsets}
    \cup {Raw("epoch", w, None) : w \in Walls}
    \cup {EmptyRaw, Raw("zero", 0, None), Raw("junk", 0, None)}

\* a datetime object: naive (tzinfo None) or aware
DateTime(wall, tzinfo) == [wall |-> wall, tzinfo |-> tzinfo]

\* what the function returns
UtcInstant(h) == [now |-> FALSE, h |-> h]
Now == [now |-> TRUE, h |-> 0]

\* feedparser: published_parsed is the UTC time of the date it could read,
\* a date without a zone read as UTC; the key is falsy otherwise
FeedparserParsed(raw) ==
    IF raw.form \in {"T", "rfc822"}
    THEN Some(raw.wall - (IF raw.off = None THEN 0 ELSE The(raw.off)))
    ELSE None

\* the entries the adapters hand over: parse_feed gives feedparser entries,
\* fetch_idx_announcements sets "published", fetch_stockbit_news "created"
DateEntries ==
    {[published |-> p, updated |-> u, created |-> c, published_parsed |-> pp] :
        p \in Raws, u \in {EmptyRaw, Raw("T", 10, Some(WIB))}, c \in Raws,
        pp \in {None} \cup {FeedparserParsed(r) : r \in Raws}}

\* lines 59-64: the raw string, by source type
RawOf(entry, source_type) ==
    IF source_type = "stockbit_api" THEN entry.created
    ELSE IF entry.published.form # "empty" THEN entry.published
    ELSE entry.updated

\* lines 94-98: dateutil.parser.parse reads every date form, keeps the
\* offset the string carries, and raises ValueError on anything else
dateutil_parse(raw) ==
    IF raw.form \in {"T", "space", "web", "rfc822"}
    THEN Some(DateTime(raw.wall, raw.off))
    ELSE None

\* lines 101-114: datetime.strptime with the five formats in turn.
\* "%Y-%m-%d %H:%M:%S" and "%d %b %Y %H:%M:%S" accept no offset,
\* "%Y-%m-%dT%H:%M:%S%z" needs one ("Z" included), "%Y-%m-%dT%H:%M:%S" none.
strptime_formats(raw) ==
    IF raw.form = "T" THEN Some(DateTime(raw.wall, raw.off))
    ELSE IF raw.form \in {"space", "web"} /\ raw.off = None
    THEN Some(DateTime(raw.wall, None))
    ELSE None

\* variant: every naive timestamp is read as UTC
AssumedOffset_utc(source_type) == 0

\* lines 128-134: the zone a naive datetime is given
AssumedOffset(source_type) ==
    IF source_type \in {"idx_api", "stockbit_api"} THEN WIB ELSE 0

\* dt.astimezone(utc) of an aware datetime
astimezone_utc(dt) == dt.wall - The(dt.tzinfo)

\* parse_published_date; has_dateutil: the import of line 55 succeeded
ParsePublishedDate(entry, source_type, has_dateutil) ==
    LET raw == RawOf(entry, source_type)
        dt1 == IF has_dateutil THEN dateutil_parse(raw) ELSE None
        dt == IF dt1 # None THEN dt1 ELSE strptime_formats(raw)
    IN  IF entry.published_parsed # None
        THEN UtcInstant(The(entry.published_parsed))
        ELSE IF raw.form \in {"empty", "zero"} THEN Now
        ELSE IF source_type = "idx_api" /\ raw.form = "epoch"
        THEN UtcInstant(raw.wall)
        ELSE IF dt = None THEN Now
        ELSE IF The(dt).tzinfo # None THEN UtcInstant(astimezone_utc(The(dt)))
        ELSE UtcInstant(astimezone_utc(
                 DateTime(The(dt).wall, Some(AssumedOffset(source_type)))))

InitDate ==
    /\ CoreIdle
    /\ AdminIdle
    /\ IdxIdle
    /\ ChallengeIdle
    /\ AnalyzeIdle
    /\ FetchIdle
    /\ SchedIdle
    /\ BotIdle
    /\ pd \in {[pc |-> "input", entry |-> e, source_type |-> t,
                has_dateutil |-> d, out |-> None] :
                 e \in DateEntries, t \in SourceTypes, d \in BOOLEAN}
    \* feedparser fills published_parsed from the entry's own date, and only
    \* parse_feed hands over feedparser entries
    /\ pd.entry.published_parsed # None
       => /\ pd.source_type = "rss"
          /\ pd.entry.published_parsed = FeedparserParsed(pd.entry.published)

\* the call of commands.cmd_collect line 100
ParseDate ==
    /\ pd.pc = "input"
    /\ pd' = [pd EXCEPT !.pc = "done",
                        !.out = Some(ParsePublishedDate(pd.entry, pd.source_type,
                                                        pd.has_dateutil))]
    /\ UNCHANGED <<coreVars, sch, ev, fh, az, cw, ix, ad>>

NextDate == ParseDate

SpecDate == InitDate /\ [][NextDate]_vars

(***************************************************************************)
(* SpecOverlap: two calls of commands.cmd_collect under way at once.  The   *)
(* scheduler thread calls it from scheduler._job_collect (line 30), the     *)
(* bot through run_in_executor from cmd_collect_handler (bot.py line 965);  *)
(* nothing keeps one from starting while the other runs.  Each call has its *)
(* own locals and its own store object, with its own caches; the records    *)
(* and the watermark map are shared.  The upstream lists are fixed: source  *)
(* 1 lists articles 5, 3, 1 and source 2 article 4.                         *)
(***************************************************************************)
\* the list source s returns, newest first
OverlapFeed(s) ==
    [j \in 1..(IF s = 1 THEN 3 ELSE 1) |->
        LET l == IF s = 1 THEN 7 - 2 * j ELSE 4
        IN  [link |-> l,
             title |-> IF l \in E2ELinks THEN E2ETitle(l) ELSE T_xy,
             published |-> PublishedOf(l)]]

\* an earlier cycle has stored article 1 and set source 1's watermark to it,
\* or nothing was collected yet
InitOverlap ==
    /\ backend \in {"json", "supabase"}
    /\ feed = [s \in Sources |-> OverlapFeed(s)]
    /\ lastPub = [s \in Sources |-> OverlapFeed(s)[1].link]
    /\ \/ /\ news = <<>>
          /\ wm = EmptyState
       \/ /\ news = <<[id |-> generate_id(1), url |-> 1, title |-> T_xy,
                       published_at |-> isoformat(PublishedOf(1)),
                       source_id |-> 1, status |-> "raw"]>>
          /\ wm = [s \in Sources |-> IF s = 1 THEN 1 ELSE NoLink]
    /\ runs = 0
    /\ loc = [c \in Cycles |-> IdleLocals]
    /\ DiffIdle

\* commands.cmd_collect lines 33-43, called while the other trigger's call
\* may be under way: get_store(), load_sources(), load_state(db)
StartOverlap(c) ==
    /\ loc[c].pc = "idle"
    /\ runs < MaxOverlapRuns
    /\ runs' = runs + 1
    /\ loc' = [loc EXCEPT ![c] =
                 [IdleLocals EXCEPT !.pc = "scan", !.sidx = 1,
                                    !.state = load_state(wm), !.wm0 = wm,
                                    !.news0 = Len(news)]]
    /\ UNCHANGED <<backend, feed, lastPub, news, wm>>
    /\ UNCHANGED diffVars

NextOverlap ==
    \/ \E c \in Cycles : StartOverlap(c)
    \/ \E c \in Cycles : FetchOk(c)
    \/ \E c \in Cycles : FetchRaise(c)
    \/ \E c \in Cycles : FilterFailOpen(c)
    \/ \E c \in Cycles : StoreSave(c)
    \/ \E c \in Cycles : StoreInsertFails(c)
    \/ \E c \in Cycles : Notify(c)
    \/ \E c \in Cycles : SaveState(c)
    \/ \E c \in Cycles : Return(c)

SpecOverlap == InitOverlap /\ [][NextOverlap]_vars

(***************************************************************************)
(* SpecSessions: the browser steps as the program takes them.  The last     *)
(* step of the extraction cascade (scraper._run_browser_html, called from   *)
(* _scrape_html, line 403) and the disclosure fetch                         *)
(* (sources._fetch_idx_via_browser, called from fetch_idx_announcements,    *)
(* line 134) each open their own Playwright session and launch their own    *)
(* chromium; BrowserManager.get() has no caller, the program only calls     *)
(* BrowserManager.close() (commands.py 420, bot.py 537, main.py 98).  A      *)
(* thread is the scheduler thread, an executor worker or the command line.  *)
(***************************************************************************)
SessionKinds == {"scrape", "idx"}

\* scraper.py 143-152 / sources.py 201-210: sync_playwright() is entered and
\* pw.chromium.launch() starts a browser process for this call
SessionLaunch(t, kind) ==
    /\ th[t].pc = "idle"
    /\ bm.calls < MaxBrowserCalls
    /\ BrowserStep(t,
                   [bm EXCEPT !.calls = @ + 1, !.procs = Append(@, "live")],
                   [th[t] EXCEPT !.pc = "session", !.raised = FALSE,
                                 !.last = kind,
                                 !.proc = Some(Len(bm.procs) + 1)])

\* the launch raised: no process; scrape_article's and the disclosure
\* fetch's handlers take it as a failed fetch
SessionLaunchRaises(t, kind) ==
    /\ th[t].pc = "idle"
    /\ bm.calls < MaxBrowserCalls
    /\ BrowserStep(t, [bm EXCEPT !.calls = @ + 1],
                   [th[t] EXCEPT !.raised = TRUE, !.last = kind])

\* the page was read or an exception left the body: the with statement
\* stops Playwright, which ends the browser the session launched
SessionEnd(t) ==
    /\ th[t].pc = "session"
    /\ BrowserStep(t,
                   [bm EXCEPT !.procs[The(th[t].proc)] = "dead"],
                   [th[t] EXCEPT !.pc = "idle", !.proc = None])

NextSessions ==
    \/ \E t \in Threads, kind \in SessionKinds : SessionLaunch(t, kind)
    \/ \E t \in Threads, kind \in SessionKinds : SessionLaunchRaises(t, kind)
    \/ \E t \in Threads : SessionEnd(t)
    \/ \E t \in Threads : CallClose(t)
    \/ \E t \in Threads : CloseAcquire(t)
    \/ \E t \in Threads : CloseNothing(t)

SpecSessions == InitBrowser /\ [][NextSessions]_vars

(***************************************************************************)
(* SpecGate: one call of commands.cmd_collect in which the classifier       *)
(* answers with a response of SpecFilter: Phase 3 hands the parsed entries  *)
(* to llm.filter_news_batch (none of them a disclosure, so they go through  *)
(* _filter_news to _run_filter as one batch), Phase 4 hands what came back  *)
(* to store.save.  Nothing was collected before; the upstream lists are     *)
(* those of SpecOverlap.  fResp is what groq.chat does in this cycle.       *)
(***************************************************************************)
InitGate ==
    /\ backend \in {"json", "supabase"}
    /\ feed = [s \in Sources |-> OverlapFeed(s)]
    /\ lastPub = [s \in Sources |-> OverlapFeed(s)[1].link]
    /\ news = <<>>
    /\ wm = EmptyState
    /\ runs = MaxRuns - 1
    /\ loc = [c \in Cycles |-> IdleLocals]
    /\ fEntries = <<>>
    /\ fResp \in {Some(r) : r \in FilterResponses}
    /\ fOut = None
    /\ fPhase = "input"
    /\ ScrapeIdle
    /\ BrowserIdle
    /\ ExtIdle
    /\ dEntries = <<>>
    /\ dLast = NoLink
    /\ dNew = <<>>
    /\ dTop = NoLink
    /\ dPhase = "off"
    /\ dBoot = FALSE
    /\ store_urls_cache = None
    /\ store_titles_cache = None
    /\ store_arg = None
    /\ store_ret = None
    /\ store_calls = 0

\* _run_filter returned the batch because of a failure: the handler at line
\* 291 or the guard at line 259
FellOpen(entries, resp) ==
    \/ resp.kind = "raise"
    \/ resp.data.t # "dict"
    \/ resp.data.has_results /\ resp.data.results_t # "list"
    \/ LoopResults(entries,
                   IF resp.data.has_results THEN resp.data.items ELSE <<>>,
                   1, <<>>).raised

\* commands.py lines 126-131 with llm.filter_news_batch: the batch is
\* classified by the response of this cycle
FilterResp(c) ==
    /\ loc[c].pc = "filter"
    /\ fResp # None
    /\ FilterStep(c, run_filter(Batch(c), The(fResp)),
                  FellOpen(Batch(c), The(fResp)))

NextGate ==
    \/ \E c \in SeqCycles : Start(c)
    \/ \E c \in Cycles : FetchOk(c)
    \/ \E c \in Cycles : FilterResp(c)
    \/ \E c \in Cycles : StoreSave(c)
    \/ \E c \in Cycles : StoreInsertFails(c)
    \/ \E c \in Cycles : Notify(c)
    \/ \E c \in Cycles : SaveState(c)

SpecGate == InitGate /\ [][NextGate]_vars

(***************************************************************************)
(* SpecBot: the bot's event loop handling /analyze and /collect requests    *)
(* (bot.cmd_analyze_handler with _run_analyze, bot.cmd_collect_handler).    *)
(* The loop thread runs one handler step at a time, from one await to the   *)
(* next; a job handed to loop.run_in_executor(None, ...) runs on a thread   *)
(* of the default executor while the loop goes on with other handlers.      *)
(***************************************************************************)
Handlers == 1..MaxRequests
RequestKinds == {"analyze", "collect"}

HandlerOff ==
    [pc |-> "off",          \* off, await (on the executor future), done
     kind |-> "none",       \* analyze, collect
     job |-> "none",        \* none, queued, running, ok, raised
     marked |-> FALSE,      \* _run_analyze set record["status"] = "analyzed"
     reported |-> "none"]   \* none, result, error: the reply sent at the end

InitBot ==
    /\ CoreIdle
    /\ AdminIdle
    /\ IdxIdle
    /\ ChallengeIdle
    /\ AnalyzeIdle
    /\ FetchIdle
    /\ SchedIdle
    /\ DateIdle
    /\ ev = [pc |-> "on", h |-> [i \in Handlers |-> HandlerOff], ran |-> {}]

BotStep(next) ==
    /\ ev' = next
    /\ UNCHANGED <<coreVars, sch, pd, fh, az, cw, ix, ad>>

\* the blocking function each request hands to the executor
BlockingOp(kind) == IF kind = "analyze" THEN "analyze_single" ELSE "cmd_collect"

\* loop.run_in_executor(None, func, *args): func runs on a worker thread of
\* the default executor, never on the thread of the loop
run_in_executor == "worker"

\* variant: the handler goes on without waiting for the future
Awaited_nowait(job) == TRUE

\* await on the future of run_in_executor: the coroutine is resumed once the
\* job has returned or raised
Awaited(job) == job \in {"ok", "raised"}

\* bot.py 862-898 and 519-523 / 955-965: the handler runs up to its await on
\* the executor future.  setup_ok: GroqClient(load_env()) (analyze) or
\* get_store() and store.stats() (collect) did not raise; if one raised, the
\* handler of line 904 / 980 replies with the error and no job is submitted.
HandlerStart(h, kind, setup_ok) ==
    /\ ev.pc = "on"
    /\ ev.h[h].pc = "off"
    /\ BotStep([ev EXCEPT !.h[h] =
                   IF setup_ok
                   THEN [@ EXCEPT !.pc = "await", !.kind = kind, !.job = "queued"]
                   ELSE [@ EXCEPT !.pc = "done", !.kind = kind,
                                  !.reported = "error"]])

\* a worker thread of the executor takes the job and starts the function
WorkerRun(h) ==
    /\ ev.pc = "on"
    /\ ev.h[h].job = "queued"
    /\ BotStep([ev EXCEPT !.h[h].job = "running",
                          !.ran = @ \cup {[h |-> h, op |-> BlockingOp(ev.h[h].kind),
                                           thread |-> run_in_executor]}])

\* the function returned (ok) or raised on the worker thread
WorkerFinish(h, ok) ==
    /\ ev.pc = "on"
    /\ ev.h[h].job = "running"
    /\ BotStep([ev EXCEPT !.h[h].job = IF ok THEN "ok" ELSE "raised"])

\* bot.py 525-538 and 899-905 / 967-981: the loop resumes the handler after
\* the await.  The job raised: the exception is re-raised in the handler and
\* the error is replied.  Otherwise analyze marks the record analyzed and
\* updates the store, collect reads the stats again; after_ok tells whether
\* these store calls raised.
HandlerResume(h, after_ok) ==
    /\ ev.pc = "on"
    /\ ev.h[h].pc = "await"
    /\ Awaited(ev.h[h].job)
    /\ BotStep([ev EXCEPT !.h[h] =
                   IF ev.h[h].job = "ok"
                   THEN [@ EXCEPT !.pc = "done",
                                  !.marked = (ev.h[h].kind = "analyze"),
                                  !.reported = IF after_ok THEN "result" ELSE "error"]
                   ELSE [@ EXCEPT !.pc = "done", !.reported = "error"]])

NextBot ==
    \/ \E h \in Handlers, kind \in RequestKinds, setup_ok \in BOOLEAN :
          HandlerStart(h, kind, setup_ok)
    \/ \E h \in Handlers : WorkerRun(h)
    \/ \E h \in Handlers, ok \in BOOLEAN : WorkerFinish(h, ok)
    \/ \E h \in Handlers, after_ok \in BOOLEAN : HandlerResume(h, after_ok)

SpecBot == InitBot /\ [][NextBot]_vars

(***************************************************************************)
(* SpecFetch: BrowserManager.fetch_html called again and again on one       *)
(* started instance (browser.py 57-91), one action per statement that can  *)
(* raise.  contexts and pages count the browsing contexts and pages that   *)
(* are open in the browser process.                                        *)
(***************************************************************************)
FetchStart ==
    [pc |-> "idle",         \* idle, new_context, new_page, stealth, body, finally
     request_count |-> 0,   \* self._request_count
     browser |-> "live",    \* the process behind self._browser
     contexts |-> 0,
     pages |-> 0,
     slept |-> 0,           \* seconds spent in time.sleep so far
     opened |-> 0,          \* log: contexts opened so far
     body_ok |-> TRUE,      \* the try block reached its return
     raised |-> FALSE,      \* the last call ended with an exception
     failures |-> 0]        \* log: calls that ended with an exception

InitFetch ==
    /\ CoreIdle
    /\ AdminIdle
    /\ IdxIdle
    /\ ChallengeIdle
    /\ AnalyzeIdle
    /\ SchedIdle
    /\ DateIdle
    /\ BotIdle
    /\ fh = FetchStart

FetchHtmlStep(next) ==
    /\ fh' = next
    /\ UNCHANGED <<coreVars, sch, pd, ev, az, cw, ix, ad>>

\* variant: every call waits
NeedsDelay_always(request_count) == TRUE

\* line 59: if self._request_count > 0
NeedsDelay(request_count) == request_count > 0

\* the call ends with an exception
FetchRaises(f) ==
    [f EXCEPT !.pc = "idle", !.raised = TRUE, !.failures = @ + 1]

\* lines 59-62: the delay and the count
FetchHtmlCall ==
    /\ fh.pc = "idle"
    /\ fh.request_count < MaxFetches
    /\ FetchHtmlStep([fh EXCEPT !.pc = "new_context",
                                !.raised = FALSE,
                                !.body_ok = TRUE,
                                !.slept = IF NeedsDelay(fh.request_count)
                                          THEN @ + BROWSER_DELAY ELSE @,
                                !.request_count = @ + 1])

\* lines 64-73: self._browser.new_context(...)
NewContext(ok) ==
    /\ fh.pc = "new_context"
    /\ FetchHtmlStep(IF ok
                     THEN [fh EXCEPT !.pc = "new_page", !.contexts = @ + 1,
                                     !.opened = @ + 1]
                     ELSE FetchRaises(fh))

\* line 74: context.new_page(), before the try statement
NewPage(ok) ==
    /\ fh.pc = "new_page"
    /\ FetchHtmlStep(IF ok THEN [fh EXCEPT !.pc = "stealth", !.pages = @ + 1]
                     ELSE FetchRaises(fh))

\* line 75: self._stealth.apply_stealth_sync(page), before the try statement
ApplyStealth(ok) ==
    /\ fh.pc = "stealth"
    /\ FetchHtmlStep(IF ok THEN [fh EXCEPT !.pc = "body"] ELSE FetchRaises(fh))

\* lines 77-88: goto, the waits, content and title; ok: return html is reached
FetchBody(ok) ==
    /\ fh.pc = "body"
    /\ FetchHtmlStep([fh EXCEPT !.pc = "finally", !.body_ok = ok])

\* lines 89-91: page.close() and then context.close(); when page.close()
\* raises, context.close() is not reached
FetchFinally(page_closed, context_closed) ==
    /\ fh.pc = "finally"
    /\ ~page_closed => ~context_closed
    /\ LET f == [fh EXCEPT !.pages = IF page_closed THEN @ - 1 ELSE @,
                           !.contexts = IF context_closed THEN @ - 1 ELSE @]
       IN  FetchHtmlStep(IF page_closed /\ context_closed /\ fh.body_ok
                         THEN [f EXCEPT !.pc = "idle"]
                         ELSE FetchRaises(f))

NextFetch ==
    \/ FetchHtmlCall
    \/ \E ok \in BOOLEAN : NewContext(ok)
    \/ \E ok \in BOOLEAN : NewPage(ok)
    \/ \E ok \in BOOLEAN : ApplyStealth(ok)
    \/ \E ok \in BOOLEAN : FetchBody(ok)
    \/ \E page_closed, context_closed \in BOOLEAN :
          FetchFinally(page_closed, context_closed)

SpecFetch == InitFetch /\ [][NextFetch]_vars

(***************************************************************************)
(* SpecAnalyze: one call of llm.analyze_single (llm.py 306-386).  Its call  *)
(* of scrape_article is the call of SpecScrape, taken step by step.         *)
(***************************************************************************)
AnalyzeStart ==
    [pc |-> "scrape",       \* scrape, chat, done
     content |-> "none",    \* what the prompt is built from: article, substitute
     result |-> "none",     \* what was returned: analysis (parsed), default
     raised |-> FALSE]      \* an exception left analyze_single

InitAnalyze ==
    /\ CollectorIdle
    /\ FilterIdle
    /\ BrowserIdle
    /\ SchedIdle
    /\ AdminIdle
    /\ IdxIdle
    /\ ChallengeIdle
    /\ DateIdle
    /\ BotIdle
    /\ FetchIdle
    /\ sc \in {ScrapeStart(pdf) : pdf \in BOOLEAN}
    /\ az = AnalyzeStart

AnalyzeStep(next) ==
    /\ az' = next
    /\ UNCHANGED <<coreVars, sch, pd, ev, fh, cw, ix, ad>>

\* line 314: not content or len(content) < MIN_CONTENT_LENGTH
Insufficient(content) ==
    \/ content = None
    \/ The(content) = <<>>
    \/ TextLen(The(content)) < MIN_CONTENT_LENGTH

\* lines 312-316: scrape_article(url) is over.  An exception of it is not
\* caught here; otherwise the content is the text or title and summary.
AnalyzeContent ==
    /\ az.pc = "scrape"
    /\ sc.pc = "done"
    /\ AnalyzeStep(IF sc.raised
                   THEN [az EXCEPT !.pc = "done", !.raised = TRUE]
                   ELSE [az EXCEPT !.pc = "chat",
                                   !.content = IF Insufficient(sc.result)
                                               THEN "substitute" ELSE "article"])

\* lines 347-386: groq.chat and json.loads; ok: the analysis was parsed and
\* normalised; otherwise the handler returns the default analysis
AnalyzeChat(ok) ==
    /\ az.pc = "chat"
    /\ AnalyzeStep([az EXCEPT !.pc = "done",
                              !.result = IF ok THEN "analysis" ELSE "default"])

NextAnalyze ==
    \/ NextScrape
    \/ AnalyzeContent
    \/ \E ok \in BOOLEAN : AnalyzeChat(ok)

SpecAnalyze == InitAnalyze /\ [][NextAnalyze]_vars

(***************************************************************************)
(* SpecLifecycle: the records of a JSONStore while the two triggers' cycles *)
(* of SpecOverlap run and stored records are analysed.  The analysis        *)
(* (bot._run_analyze, cmd_analyze) runs in its own handler or process and   *)
(* uses its own store object; its update is one file write.                 *)
(***************************************************************************)
InitLifecycle ==
    /\ InitOverlap
    /\ backend = "json"

\* bot._run_analyze lines 520-536, cmd_analyze lines 365-383: after
\* analyze_single has returned, the record read from the store gets status
\* "analyzed" and goes to store.update
AnalyzeOne ==
    /\ \E i \in 1..Len(news) :
          /\ news[i].status = "raw"
          /\ news' = update(backend, news,
                            [news[i] EXCEPT !.status = "analyzed"], TRUE)
    /\ Cardinality({j \in 1..Len(news) : news[j].status = "analyzed"}) < MaxAnalyses
    /\ UNCHANGED <<backend, feed, lastPub, wm, runs, loc>>
    /\ UNCHANGED diffVars

NextLifecycle ==
    \/ \E c \in Cycles : StartOverlap(c)
    \/ \E c \in Cycles : FetchOk(c)
    \/ \E c \in Cycles : FetchRaise(c)
    \/ \E c \in Cycles : FilterFailOpen(c)
    \/ \E c \in Cycles : StoreSave(c)
    \/ \E c \in Cycles : Notify(c)
    \/ \E c \in Cycles : SaveState(c)
    \/ \E c \in Cycles : Return(c)
    \/ AnalyzeOne

SpecLifecycle == InitLifecycle /\ [][NextLifecycle]_vars

(***************************************************************************)
(* SpecChallenge: scraper._run_browser_html from the first page.content()   *)
(* (line 170) to the end of its try block.  A text that is tested for a     *)
(* challenge marker (the title, the serialized HTML) is represented by the  *)
(* offset of the first marker of config.CLOUDFLARE_MARKERS in it, NoMarker  *)
(* when there is none.  The page is not under the program's control: every  *)
(* read draws the title and the HTML anew.                                  *)
(***************************************************************************)
NoMarker == 0

\* a title is short: a marker in it lies within the inspected prefix
TitleTexts == {NoMarker, 1}

\* the HTML: no marker, one in the first 3000 characters, one only further on
HtmlTexts == {NoMarker, 1, 3001}

\* helpers.is_cloudflare_blocked: a marker in text[:3000].lower()
is_cloudflare_blocked(text) == text # NoMarker /\ text <= 3000

\* line 177
wait_sec(attempt) == 8 + (attempt * 5)

\* after lines 170-171: html_content = page.content(); title = page.title()
ChallengeStart(title, html_content) ==
    [pc |-> "loop",            \* loop, scroll, final, done
     attempt |-> 0,            \* the loop variable of range(3)
     title |-> title,
     html_content |-> html_content,
     waits |-> <<>>,           \* log: the waits made, in seconds
     checks |-> 0,             \* log: evaluations of the loop's test
     result |-> None,          \* the text returned, or None
     failed |-> FALSE]         \* an exception was caught at line 233

InitChallenge ==
    /\ CoreIdle
    /\ AdminIdle
    /\ IdxIdle
    /\ SchedIdle /\ DateIdle /\ BotIdle /\ FetchIdle /\ AnalyzeIdle
    /\ cw \in {ChallengeStart(t, h) : t \in TitleTexts, h \in HtmlTexts}

ChallengeStep(next) ==
    /\ cw' = next
    /\ UNCHANGED <<coreVars, sch, pd, ev, fh, az, ix, ad>>

\* the test at line 175
Blocked(c) == is_cloudflare_blocked(c.title) \/ is_cloudflare_blocked(c.html_content)

\* lines 174-176: the test finds no marker in title and HTML: break
LoopBreak ==
    /\ cw.pc = "loop"
    /\ cw.attempt < 3
    /\ ~Blocked(cw)
    /\ ChallengeStep([cw EXCEPT !.pc = "scroll", !.checks = @ + 1])

\* lines 174-185: a marker was found: wait, then read HTML and title again
LoopWait(title, html_content) ==
    /\ cw.pc = "loop"
    /\ cw.attempt < 3
    /\ Blocked(cw)
    /\ ChallengeStep([cw EXCEPT !.attempt = @ + 1, !.checks = @ + 1,
                                !.waits = Append(@, wait_sec(cw.attempt)),
                                !.title = title,
                                !.html_content = html_content])

\* page.wait_for_timeout, page.content() or page.title() raised (page or
\* browser gone): caught at line 233, the function returns None
LoopRaises ==
    /\ cw.pc = "loop"
    /\ cw.attempt < 3
    /\ Blocked(cw)
    /\ ChallengeStep([cw EXCEPT !.pc = "done", !.checks = @ + 1,
                                !.waits = Append(@, wait_sec(cw.attempt)),
                                !.failed = TRUE])

\* range(3) is exhausted: the loop ends without a further test
LoopExhausted ==
    /\ cw.pc = "loop"
    /\ cw.attempt = 3
    /\ ChallengeStep([cw EXCEPT !.pc = "scroll"])

\* lines 187-211: consent wall (its own try), scroll, wait, then
\* html_content = page.content(); the title is not read again
ScrollReread(html_content) ==
    /\ cw.pc = "scroll"
    /\ ChallengeStep([cw EXCEPT !.pc = "final", !.html_content = html_content])

\* page.evaluate, page.content(), page.close() or context.close() raised
ScrollRaises ==
    /\ cw.pc = "scroll"
    /\ ChallengeStep([cw EXCEPT !.pc = "done", !.failed = TRUE])

\* lines 215-231: when the HTML passes the marker test, newspaper or the
\* selectors give r, a text of at least MIN_CONTENT_LENGTH or None
FinalExtract(r) ==
    /\ cw.pc = "final"
    /\ r # None => TextLen(The(r)) >= MIN_CONTENT_LENGTH
    /\ ChallengeStep([cw EXCEPT !.pc = "done",
                                !.result = IF ~is_cloudflare_blocked(cw.html_content)
                                           THEN r ELSE None])

NextChallenge ==
    \/ LoopBreak
    \/ \E t \in TitleTexts, h \in HtmlTexts : LoopWait(t, h)
    \/ LoopRaises
    \/ LoopExhausted
    \/ \E h \in HtmlTexts : ScrollReread(h)
    \/ ScrollRaises
    \/ \E r \in {None} \cup {Some(t) : t \in Texts} : FinalExtract(r)

SpecChallenge == InitChallenge /\ [][NextChallenge]_vars

(***************************************************************************)
(* SpecPdf: scrape_article on a PDF-like URL, one action per step of        *)
(* _scrape_pdf and _run_browser_pdf.  A step's input r is the raw text of   *)
(* the bytes it obtained, None when it obtained none (request failed, not   *)
(* a PDF, fetch returned null, no download, the extraction raised).         *)
(***************************************************************************)
\* scraper.extract_pdf_text_from_bytes, line 31
extract_pdf_text_from_bytes(raw) == clean_text(raw)

\* the test of lines 422, 309 and 337
SufficientText(text) == text # <<>> /\ TextLen(text) >= MIN_CONTENT_LENGTH

\* scrape_article(url) with is_pdf_url(url), line 441: _scrape_pdf is entered
PdfStart ==
    [pc |-> "requests",     \* requests, browser, session, methodA, methodB,
                            \* finally, done
     pdf |-> TRUE,
     ran |-> <<>>,          \* log: the steps run, in order
     got |-> <<>>,          \* log: per step run, the sufficient text it
                            \* extracted, or None
     last |-> None,         \* log: what the last step run obtained
     result |-> None,       \* what scrape_article returns: a text, or None
     raised |-> FALSE]      \* an exception left scrape_article

InitPdf ==
    /\ CollectorIdle
    /\ ExtIdle
    /\ FilterIdle
    /\ BrowserIdle
    /\ sc = PdfStart

\* the outcome of a step that obtained r
StepText(r) ==
    IF r # None /\ SufficientText(extract_pdf_text_from_bytes(The(r)))
    THEN Some(extract_pdf_text_from_bytes(The(r))) ELSE None

\* _scrape_pdf lines 414-426: requests.get and extraction, in a try
PdfDirect(r) ==
    /\ sc.pc = "requests"
    /\ ScrapeStep(IF StepText(r) # None
                  THEN [sc EXCEPT !.pc = "done", !.ran = Append(@, "direct"),
                                  !.got = Append(@, StepText(r)), !.last = r,
                                  !.result = StepText(r)]
                  ELSE [sc EXCEPT !.pc = "browser", !.ran = Append(@, "direct"),
                                  !.got = Append(@, None), !.last = r])

\* _run_browser_pdf lines 242-256: imports, sync_playwright() and
\* chromium.launch, outside the try; a failure leaves scrape_article
PdfLaunch(ok) ==
    /\ sc.pc = "browser"
    /\ ScrapeStep(IF ok THEN [sc EXCEPT !.pc = "session"]
                  ELSE [sc EXCEPT !.pc = "done", !.raised = TRUE])

\* lines 260-280: new_context, new_page, stealth, the visit of the listing
\* page; an exception is caught at line 349
PdfSession(ok) ==
    /\ sc.pc = "session"
    /\ ScrapeStep([sc EXCEPT !.pc = IF ok THEN "methodA" ELSE "finally"])

\* lines 282-316, method A: fetch() inside the page.  closed tells whether
\* page.close() and context.close() at lines 311-312 went through; they are
\* inside the try of line 283, whose except only logs
PdfMethodA(r, closed) ==
    /\ sc.pc = "methodA"
    /\ ScrapeStep([sc EXCEPT !.pc = IF StepText(r) # None /\ closed
                                    THEN "finally" ELSE "methodB",
                             !.ran = Append(@, "fetch"),
                             !.got = Append(@, StepText(r)), !.last = r,
                             !.result = IF StepText(r) # None /\ closed
                                        THEN StepText(r) ELSE None])

\* lines 318-347, method B: a real download read back from a file; then
\* page.close() and context.close() at lines 346-347
PdfMethodB(r, closed) ==
    /\ sc.pc = "methodB"
    /\ ScrapeStep([sc EXCEPT !.pc = "finally",
                             !.ran = Append(@, "download"),
                             !.got = Append(@, StepText(r)), !.last = r,
                             !.result = IF StepText(r) # None /\ closed
                                        THEN StepText(r) ELSE None])

\* line 352: browser.close() in the finally clause; when it raises, the
\* exception replaces the pending return
PdfFinally(ok) ==
    /\ sc.pc = "finally"
    /\ ScrapeStep(IF ok THEN [sc EXCEPT !.pc = "done"]
                  ELSE [sc EXCEPT !.pc = "done", !.result = None,
                                  !.raised = TRUE])

PdfInputs == {None} \cup {Some(t) : t \in Texts}

NextPdf ==
    \/ \E r \in PdfInputs : PdfDirect(r)
    \/ \E ok \in BOOLEAN : PdfLaunch(ok)
    \/ \E ok \in BOOLEAN : PdfSession(ok)
    \/ \E r \in PdfInputs, closed \in BOOLEAN : PdfMethodA(r, closed)
    \/ \E r \in PdfInputs, closed \in BOOLEAN : PdfMethodB(r, closed)
    \/ \E ok \in BOOLEAN : PdfFinally(ok)

SpecPdf == InitPdf /\ [][NextPdf]_vars

(***************************************************************************)
(* SpecIdx: one pass of the scan loop of cmd_collect (lines 45-66) over a   *)
(* source of type idx_api: sources.fetch_idx_announcements with its direct  *)
(* request and its browser-driven fetch.  A payload is the list of          *)
(* announcements of a decoded JSON object, given by their numbers.          *)
(***************************************************************************)
\* what the direct request can come to (other than a decoded payload)
DirectFailures == {"non200", "nonjson", "raised"}

Payloads == {<<>>, <<1>>, <<2, 1>>, <<3, 2, 1>>}

\* sources._parse_idx_data: one entry per announcement
_parse_idx_data(data) ==
    [i \in 1..Len(data) |-> [link |-> data[i], title |-> <<"idx", data[i]>>]]

IdxStart ==
    [pc |-> "direct",       \* direct, check, launch, session, finally, ret,
                            \* loop, done
     direct |-> None,       \* log: how the direct request ended: "ok" or a failure
     data |-> None,         \* the local `data`: a payload, or None
     launches |-> 0,        \* log: calls of chromium.launch
     via |-> "none",        \* log: how the browser got its payload:
                            \* intercepted (listener), body (page text)
     browser |-> "none",    \* none, live, closed
     ret |-> None,          \* what the adapter returned: a list of entries
     raised |-> FALSE,      \* an exception left the adapter
     next_source |-> FALSE] \* the scan loop went on to the next source

InitIdx ==
    /\ CoreIdle
    /\ AdminIdle
    /\ SchedIdle /\ DateIdle /\ BotIdle /\ FetchIdle /\ AnalyzeIdle
    /\ ChallengeIdle
    /\ ix = IdxStart

IdxStep(next) ==
    /\ ix' = next
    /\ UNCHANGED <<coreVars, sch, pd, ev, fh, az, cw, ad>>

\* _fetch_idx_via_requests lines 143-177, answer 200 with a JSON content
\* type and a body that decodes: the payload is returned
DirectOk(payload) ==
    /\ ix.pc = "direct"
    /\ IdxStep([ix EXCEPT !.pc = "check", !.direct = Some("ok"),
                          !.data = Some(payload)])

\* lines 165-177: status other than 200, content type without "json", or an
\* exception (connection, timeout, body that does not decode): None
DirectFails(how) ==
    /\ ix.pc = "direct"
    /\ IdxStep([ix EXCEPT !.pc = "check", !.direct = Some(how)])

\* fetch_idx_announcements lines 132-134: if data is None, the
\* browser-driven fetch is called
IdxEscalate ==
    /\ ix.pc = "check"
    /\ IdxStep([ix EXCEPT !.pc = IF ix.data = None THEN "launch" ELSE "ret"])

\* _fetch_idx_via_browser lines 181-208: imports, sync_playwright() and
\* chromium.launch, before the try of line 210
IdxLaunch(ok) ==
    /\ ix.pc = "launch"
    /\ IdxStep(IF ok
               THEN [ix EXCEPT !.pc = "session", !.launches = @ + 1,
                               !.browser = "live"]
               ELSE [ix EXCEPT !.pc = "loop", !.launches = @ + 1,
                               !.raised = TRUE])

\* lines 210-245: the response listener caught the API answer, or the page
\* body decodes as JSON: that payload is returned (through the finally)
IdxSessionData(payload, via) ==
    /\ ix.pc = "session"
    /\ IdxStep([ix EXCEPT !.pc = "finally", !.data = Some(payload),
                          !.via = via])

\* lines 236-249: nothing intercepted and the body does not decode, or an
\* exception inside the try (navigation, timeout): None
IdxSessionNone ==
    /\ ix.pc = "session"
    /\ IdxStep([ix EXCEPT !.pc = "finally"])

\* lines 251-252: browser.close() in the finally clause; when it raises, the
\* exception replaces the pending return
IdxFinally(ok) ==
    /\ ix.pc = "finally"
    /\ IdxStep(IF ok THEN [ix EXCEPT !.pc = "ret", !.browser = "closed"]
               ELSE [ix EXCEPT !.pc = "loop", !.data = None, !.raised = TRUE])

\* fetch_idx_announcements lines 136-140
IdxReturn ==
    /\ ix.pc = "ret"
    /\ IdxStep([ix EXCEPT !.pc = "loop",
                          !.ret = IF ix.data = None THEN Some(<<>>)
                                  ELSE Some(_parse_idx_data(The(ix.data)))])

\* cmd_collect lines 53-66: an exception of the fetch is logged and the loop
\* continues; so it does on an empty list; otherwise the entries go on to
\* get_new_entries and the loop reaches the next source after that
IdxLoop ==
    /\ ix.pc = "loop"
    /\ IdxStep([ix EXCEPT !.pc = "done", !.next_source = TRUE])

NextIdx ==
    \/ \E payload \in Payloads : DirectOk(payload)
    \/ \E how \in DirectFailures : DirectFails(how)
    \/ \E ok \in BOOLEAN : IdxLaunch(ok)
    \/ \E payload \in Payloads, via \in {"intercepted", "body"} :
          IdxSessionData(payload, via)
    \/ IdxSessionNone
    \/ \E ok \in BOOLEAN : IdxFinally(ok)
    \/ IdxEscalate
    \/ IdxReturn
    \/ IdxLoop

SpecIdx == InitIdx /\ [][NextIdx]_vars

(***************************************************************************)
(* SpecAdmin: the updates the bot handles (bot.run_bot, lines 1486-1523)    *)
(* that can touch the source registry or start a collection cycle or a      *)
(* cleanup, sent by the admin and by another user.  A source's name, URL,   *)
(* type and category are "old" until an edit sets them.  The registry calls *)
(* are taken to succeed (sources.json, or a Supabase call that returns).    *)
(***************************************************************************)
Guest == 2

Users == {TELEGRAM_ADMIN_ID, Guest}

SourceFields == {"name", "feed_url", "type", "category"}

SourceIds == 1..2

NewSource(id) ==
    [id |-> id, is_active |-> TRUE, name |-> "old", feed_url |-> "old",
     type |-> "old", category |-> "old"]

\* bot.admin_only line 622: str(user_id) != str(TELEGRAM_ADMIN_ID); the
\* decimal strings of two ids are equal exactly when the ids are
IsAdmin(user_id) == user_id = TELEGRAM_ADMIN_ID

\* bot.toggle_source_in_store, lines 240-246
toggle_source_in_store(registry, source_id) ==
    [i \in 1..Len(registry) |->
        IF registry[i].id = source_id
        THEN [registry[i] EXCEPT !.is_active = ~@] ELSE registry[i]]

\* bot.update_source_in_store, lines 224-230, with updates = {field: value}
update_source_in_store(registry, source_id, field) ==
    [i \in 1..Len(registry) |->
        IF registry[i].id = source_id
        THEN [registry[i] EXCEPT ![field] = "new"] ELSE registry[i]]

\* bot.delete_source_from_store, lines 256-261
delete_source_from_store(registry, source_id) ==
    SelectSeq(registry, LAMBDA s : s.id # source_id)

\* bot.add_source_to_store, lines 208-213: the id is the largest id plus one
add_source_to_store(registry) ==
    LET ids == {registry[i].id : i \in 1..Len(registry)}
        new_id == IF ids = {} THEN 1
                  ELSE (CHOOSE m \in ids : \A n \in ids : n <= m) + 1
    IN  Append(registry, NewSource(new_id))

AdminStart ==
    [pc |-> "on",
     registry |-> <<NewSource(1)>>,                \* the source registry
     user_data |-> [u \in Users |-> None],         \* edit_source_id, edit_field
     conv |-> [u \in Users |-> "none"],            \* stage of /add_source:
                                                   \* none, name, url, type, category
     changed_by |-> {},   \* log: <<user, operation>> of every registry change
     collects |-> {},     \* log: users whose update started cmd_collect
     cleanups |-> {},     \* log: users whose update started delete_old_news
     updates |-> 0]       \* updates handled so far

InitAdmin ==
    /\ CoreIdle
    /\ SchedIdle /\ DateIdle /\ BotIdle /\ FetchIdle /\ AnalyzeIdle
    /\ ChallengeIdle /\ IdxIdle
    /\ ad = AdminStart

AdminStep(next) ==
    /\ ad.pc = "on"
    /\ ad.updates < MaxUpdates
    /\ ad' = [next EXCEPT !.updates = ad.updates + 1]
    /\ UNCHANGED <<coreVars, sch, pd, ev, fh, az, cw, ix>>

\* the registry after a write by user u, with the log entry when it changed
Changed(u, op, registry) ==
    [ad EXCEPT !.registry = registry,
               !.changed_by = IF registry # ad.registry
                              THEN @ \cup {<<u, op>>} ELSE @]

\* /collect: cmd_collect_handler under @admin_only, lines 955-965
CmdCollectHandler(u) ==
    /\ u \in Users
    /\ AdminStep(IF IsAdmin(u) THEN [ad EXCEPT !.collects = @ \cup {u}] ELSE ad)

\* /cleanup: cmd_cleanup under @admin_only, lines 983-998
CmdCleanup(u) ==
    /\ u \in Users
    /\ AdminStep(IF IsAdmin(u) THEN [ad EXCEPT !.cleanups = @ \cup {u}] ELSE ad)

\* /toggle_source ID: cmd_toggle_source under @admin_only, lines 1044-1055
CmdToggleSource(u, source_id) ==
    /\ u \in Users
    /\ AdminStep(IF IsAdmin(u)
                 THEN Changed(u, "toggle", toggle_source_in_store(ad.registry, source_id))
                 ELSE ad)

\* /add_source: add_source_start under @admin_only, lines 1069-1078, the
\* entry point of the conversation
AddSourceStart(u) ==
    /\ ad.conv[u] = "none"
    /\ AdminStep(IF IsAdmin(u) THEN [ad EXCEPT !.conv[u] = "name"] ELSE ad)

\* add_source_name, add_source_url, add_source_type_cb, lines 1081-1123:
\* the conversation of user u takes the next input
AddSourceInput(u) ==
    /\ ad.conv[u] \in {"name", "url", "type"}
    /\ AdminStep([ad EXCEPT !.conv[u] = IF @ = "name" THEN "url"
                                        ELSE IF @ = "url" THEN "type"
                                        ELSE "category"])

\* add_source_cat_cb, lines 1126-1147: the source is added
AddSourceCatCb(u) ==
    /\ ad.conv[u] = "category"
    /\ AdminStep([Changed(u, "add", add_source_to_store(ad.registry))
                    EXCEPT !.conv[u] = "none"])

\* callback_handler, lines 1243-1245: data "src_toggle:<id>"
CbToggle(u, source_id) ==
    /\ u \in Users
    /\ AdminStep(Changed(u, "toggle", toggle_source_in_store(ad.registry, source_id)))

\* callback_handler, lines 1273-1277: data "srcedit:<id>:<field>"
CbEditField(u, source_id, field) ==
    /\ u \in Users
    /\ AdminStep([ad EXCEPT !.user_data[u] = Some(<<source_id, field>>)])

\* callback_handler, lines 1299-1316: data "srcsettype:<id>:<type>" or
\* "srcsetcat:<id>:<category>"
CbSetField(u, source_id, field) ==
    /\ field \in {"type", "category"}
    /\ AdminStep([Changed(u, "edit",
                          update_source_in_store(ad.registry, source_id, field))
                    EXCEPT !.user_data[u] = None])

\* callback_handler, lines 1336-1347: data "src_del_yes:<id>"
CbDeleteYes(u, source_id) ==
    /\ u \in Users
    /\ AdminStep(Changed(u, "delete", delete_source_from_store(ad.registry, source_id)))

\* text_message_handler, lines 1361-1387: a text outside the conversations
\* from a user whose user_data names a source and the field name or feed_url
TextMessage(u) ==
    /\ ad.conv[u] = "none"
    /\ AdminStep(IF ad.user_data[u] # None
                    /\ The(ad.user_data[u])[2] \in {"name", "feed_url"}
                 THEN [Changed(u, "edit",
                               update_source_in_store(ad.registry,
                                                      The(ad.user_data[u])[1],
                                                      The(ad.user_data[u])[2]))
                         EXCEPT !.user_data[u] = None]
                 ELSE ad)

NextAdmin ==
    \/ \E u \in Users : CmdCollectHandler(u)
    \/ \E u \in Users : CmdCleanup(u)
    \/ \E u \in Users, id \in SourceIds : CmdToggleSource(u, id)
    \/ \E u \in Users : AddSourceStart(u)
    \/ \E u \in Users : AddSourceInput(u)
    \/ \E u \in Users : AddSourceCatCb(u)
    \/ \E u \in Users, id \in SourceIds : CbToggle(u, id)
    \/ \E u \in Users, id \in SourceIds, f \in SourceFields : CbEditField(u, id, f)
    \/ \E u \in Users, id \in SourceIds, f \in SourceFields : CbSetField(u, id, f)
    \/ \E u \in Users, id \in SourceIds : CbDeleteYes(u, id)
    \/ \E u \in Users : TextMessage(u)

SpecAdmin == InitAdmin /\ [][NextAdmin]_vars

(***************************************************************************)
(* Properties                                                              *)
(***************************************************************************)
Running == {"scan", "filter", "store", "notify", "savestate"}

\* the entry handed to the last store.save call of cycle c
LastSubmitted(c) == loc[c].relevant[loc[c].ridx - 1]

HasSaved(c) == loc[c].ridx > 1 /\ loc[c].ret # None

CountUrl(db, url) == Cardinality({i \in 1..Len(db) : db[i].url = url})

\* the records persisted before cycle c began
StoredBefore(c) == Take(news, loc[c].news0)

NoDupUrl ==
    \A i, j \in 1..Len(news) : i # j => news[i].url # news[j].url

\* C1: once an earlier cycle has persisted a record with URL u, a later cycle
\* that submits an entry with URL u gets False from store.save and the store
\* holds exactly one record with URL u afterwards.
C1_IdempotentIngestion ==
    \A c \in Cycles :
        (HasSaved(c) /\ LastSubmitted(c).url \in AllUrls(StoredBefore(c)))
        => /\ loc[c].ret = Some(FALSE)
           /\ CountUrl(news, LastSubmitted(c).url) = 1

\* a later cycle has resubmitted the URL of a record of an earlier cycle,
\* under another title, and was refused
C1_Witness ==
    \E c \in Cycles :
        /\ HasSaved(c)
        /\ loc[c].ret = Some(FALSE)
        /\ \E i \in 1..loc[c].news0 :
              /\ news[i].url = LastSubmitted(c).url
              /\ ~Similar(LastSubmitted(c).title, news[i].title)

\* C2: no two stored records have the same URL and no two stored records have
\* titles whose case-insensitive similarity ratio is >= 0.75.
C2_StoreInvariant ==
    \A i, j \in 1..Len(news) :
        i # j => /\ news[i].url # news[j].url
                 /\ ~Similar(news[i].title, news[j].title)

\* C3: save of a candidate whose URL is not stored is rejected, returning
\* False and writing nothing, if and only if its title has case-insensitive
\* similarity >= 0.75 to the title of some stored record; otherwise the
\* candidate is appended; the records written earlier stay as they are.
\* (JSONStore.save, and SupabaseDB.save whenever its insert call returns.)
C3_NearDuplicate ==
    [][(\E url \in StoreUrls, title \in Titles : StoreSaveOk(url, title))
        => LET e == The(store_arg')
               near == \E i \in 1..Len(news) : Similar(e.title, news[i].title)
               rejected == store_ret' = Some(FALSE) /\ news' = news
           IN  /\ e.url \notin AllUrls(news)
                    => /\ near <=> rejected
                       /\ ~near => /\ store_ret' = Some(TRUE)
                                   /\ Len(news') = Len(news) + 1
                                   /\ news'[Len(news')].url = e.url
                                   /\ news'[Len(news')].title = e.title
               /\ SubSeq(news', 1, Len(news)) = news]_vars

\* a candidate with a new URL was refused for its title, which is not the
\* stored one, and the store keeps the record written first
C3_Witness ==
    /\ store_ret = Some(FALSE)
    /\ store_arg # None
    /\ The(store_arg).url \notin AllUrls(news)
    /\ \E i \in 1..Len(news) :
          /\ Similar(The(store_arg).title, news[i].title)
          /\ news[i].title # The(store_arg).title

\* C4: with no prior watermark every fetched entry is new and the watermark
\* becomes the top entry's link; when the next fetch returns the same list
\* with one newer entry E0 in front (the entries carry links, E0's link is not
\* the old top's), the new entries are exactly [E0] and the watermark
\* becomes E0's link.
C4_Bootstrap ==
    /\ (dPhase = "first" /\ dLast = NoLink /\ dEntries # <<>>)
          => /\ dNew = dEntries
             /\ dTop = dEntries[1].link
    /\ (dPhase = "second" /\ dBoot /\ Len(dEntries) >= 2
            /\ dEntries[2].link # NoLink
            /\ dEntries[1].link # NoLink
            /\ dEntries[1].link # dEntries[2].link)
          => /\ dLast = dEntries[2].link
             /\ dNew = <<dEntries[1]>>
             /\ dTop = dEntries[1].link

\* [E1, E2, E3] was fetched without a watermark, then [E0, E1, E2, E3]
C4_Witness ==
    /\ dPhase = "second"
    /\ dBoot
    /\ Len(dEntries) = 4
    /\ dNew = <<dEntries[1]>>
    /\ \A i \in 1..4 : dEntries[i].link # NoLink
    /\ \A i \in 2..4 : dEntries[i].link # dEntries[1].link
    /\ dEntries[2].link # dEntries[3].link

\* position of the first entry whose link is w, Len + 1 if there is none
FirstAt(entries, w) ==
    IF \E i \in 1..Len(entries) : entries[i].link = w
    THEN CHOOSE i \in 1..Len(entries) :
            /\ entries[i].link = w
            /\ \A j \in 1..(i - 1) : entries[j].link # w
    ELSE Len(entries) + 1

\* C5: for a non-empty list and a stored watermark link w the new entries are
\* exactly the prefix strictly before the first entry whose link is w, in
\* order; the result is empty when the top entry's link is w.
C5_WatermarkDiff ==
    (dPhase \in {"first", "second"} /\ dEntries # <<>> /\ dLast # NoLink)
    => /\ dNew = SubSeq(dEntries, 1, FirstAt(dEntries, dLast) - 1)
       /\ dTop = dEntries[1].link
       /\ dEntries[1].link = dLast => dNew = <<>>

\* the watermark was found behind two newer entries
C5_Witness ==
    /\ dPhase = "first"
    /\ dLast # NoLink
    /\ Len(dEntries) = 4
    /\ FirstAt(dEntries, dLast) = 3
    /\ Len(dNew) = 2

\* a fetch of source s by cycle c returned a non-empty list that does not
\* hold the watermark the cycle began with
Missed(c, s) ==
    /\ s < loc[c].sidx
    /\ loc[c].seen[s] # NoLink
    /\ loc[c].wm0[s] # NoLink
    /\ \A i \in 1..Len(feed[s]) : feed[s][i].link # loc[c].wm0[s]

\* C6: when the stored watermark link is absent from the fetched list, the
\* scan goes on without raising and takes every fetched entry as new; the
\* cycle stores none of them that is already present by URL.
C6_MissSafety ==
    /\ \A c \in Cycles : \A s \in Sources :
          (loc[c].pc # "idle" /\ Missed(c, s))
          => \E k \in 1..Len(loc[c].all_new) :
                /\ loc[c].all_new[k].source = s
                /\ loc[c].all_new[k].entries = feed[s]
                /\ loc[c].all_new[k].top_link = feed[s][1].link
    /\ \A c \in Cycles :
          (HasSaved(c) /\ loc[c].ret = Some(TRUE))
          => CountUrl(news, LastSubmitted(c).url) = 1
    /\ NoDupUrl

\* an entry of a source whose watermark was missed was submitted while a
\* record with its URL was stored, and was refused
C6_Witness ==
    \E c \in Cycles :
        /\ HasSaved(c)
        /\ Missed(c, LastSubmitted(c).source_id)
        /\ loc[c].ret = Some(FALSE)
        /\ CountUrl(news, LastSubmitted(c).url) = 1

\* in cycle c no classifier batch failed open and no insert failed (the
\* entries of a cycle come from the fetches that succeeded)
FullySuccessful(c) == loc[c].failed = {}

\* C7: a source's persisted watermark changes only at the end of a cycle in
\* which fetch, classification and persistence all succeeded, and it never
\* goes back to an earlier link.
C7_WatermarkInvariant ==
    [][\A s \in Sources :
          wm'[s] # wm[s]
          => /\ \E c \in Cycles : /\ loc[c].pc = "savestate"
                                  /\ loc'[c].pc = "done"
                                  /\ FullySuccessful(c)
             /\ wm'[s] > wm[s]]_vars

\* C8: while a cycle has not reached its final save_state the persisted
\* watermark map is the one it began with, so an interruption leaves it
\* identical; every cycle takes as new what get_new_entries yields for the
\* persisted watermark, so the cycle after an interruption submits those
\* entries again, and no URL is stored twice.
C8_CrashSafety ==
    /\ \A c \in Cycles : loc[c].pc \in Running => wm = loc[c].wm0
    /\ \A c \in Cycles : \A k \in 1..Len(loc[c].all_new) :
          LET t == loc[c].all_new[k]
          IN  t.entries = get_new_entries(feed[t.source], loc[c].wm0[t.source])[1]
    /\ \A c \in Cycles : \A s \in Sources :
          (loc[c].pc # "idle" /\ s < loc[c].sidx /\ loc[c].seen[s] # NoLink
              /\ get_new_entries(feed[s], loc[c].wm0[s])[1] # <<>>)
          => \E k \in 1..Len(loc[c].all_new) : loc[c].all_new[k].source = s
    /\ NoDupUrl

\* JSON backend: records are stored while no watermark is, so the cycle that
\* wrote them was interrupted; the next cycle has run to its end, it has
\* submitted a stored URL again and was refused
C8_Witness ==
    \E c \in Cycles :
        /\ backend = "json"
        /\ loc[c].pc = "done"
        /\ loc[c].news0 > 0
        /\ loc[c].wm0 = EmptyState
        /\ wm # EmptyState
        /\ HasSaved(c)
        /\ loc[c].ret = Some(FALSE)
        /\ LastSubmitted(c).url \in AllUrls(StoredBefore(c))

\* C9: a source whose fetch failed or returned nothing in a cycle has the
\* same persisted watermark after the cycle as before it, whatever happens to
\* the other sources.
C9_RegressionGuard ==
    \A c \in Cycles :
        loc[c].pc = "done"
        => \A s \in Sources : loc[c].seen[s] = NoLink => wm[s] = loc[c].wm0[s]

\* a source with a watermark failed to fetch in a cycle that moved the
\* watermark of another source
C9_Witness ==
    \E c \in Cycles : \E s, t \in Sources :
        /\ loc[c].pc = "done"
        /\ loc[c].seen[s] = NoLink
        /\ feed[s] # <<>>
        /\ wm[s] # NoLink
        /\ wm[s] = loc[c].wm0[s]
        /\ wm[t] # loc[c].wm0[t]

\* the persisted watermark moves only in the save_state step, which follows
\* the last store.save of the cycle and writes no record
WatermarkAfterRecords ==
    wm' # wm
    => \E c \in Cycles : /\ loc[c].pc = "savestate"
                         /\ loc'[c].pc = "done"
                         /\ loc[c].ridx = Len(loc[c].relevant) + 1
                         /\ news' = news

\* C10: after a cycle completes, every source whose fetch returned a
\* non-empty list has a persisted watermark equal to the top link of that
\* list, written only after every record write of the cycle.
C10_Coverage ==
    [][/\ \A c \in Cycles :
             loc'[c].pc = "done"
             => \A s \in Sources :
                   loc'[c].seen[s] # NoLink => wm'[s] = loc'[c].seen[s]
       /\ WatermarkAfterRecords]_vars

(***************************************************************************)
(* Cycle pipeline: fetch isolation, write order, notification               *)
(***************************************************************************)
\* the triples of all_new that belong to source s
TriplesOf(c, s) ==
    {k \in 1..Len(loc[c].all_new) : loc[c].all_new[k].source = s}

\* the sources the loop of Phase 1 has been through
Scanned(c) == {s \in Sources : s < loc[c].sidx}

\* the sources that had entries upstream and whose fetch gave none: the
\* adapter raised, or it caught its failure and returned []
FetchFailed(c) ==
    {s \in Scanned(c) : loc[c].seen[s] = NoLink /\ feed[s] # <<>>}

\* what Phase 1 holds for the sources it has been through: nothing for a
\* source whose fetch raised, the new entries of every other source that
\* returned a list, one triple each, in registry order
ScanIsolated(c) ==
    /\ \A s \in Scanned(c) :
          IF s \in FetchFailed(c) THEN TriplesOf(c, s) = {}
          ELSE loc[c].seen[s] # NoLink
               => LET r == get_new_entries(feed[s], load_state(loc[c].wm0)[s])
                  IN  IF r[1] = <<>> THEN TriplesOf(c, s) = {}
                      ELSE \E k \in 1..Len(loc[c].all_new) :
                              /\ TriplesOf(c, s) = {k}
                              /\ loc[c].all_new[k].entries = r[1]
    /\ \A k \in 1..Len(loc[c].all_new) :
          /\ loc[c].all_new[k].source \in Scanned(c)
          /\ \A j \in 1..(k - 1) :
                loc[c].all_new[j].source < loc[c].all_new[k].source
    /\ \A i \in 1..Len(loc[c].parsed) :
          loc[c].parsed[i].source_id \notin FetchFailed(c)

\* a raising fetch is one iteration of the loop like any other: the cycle
\* goes to the next source, or after the last one to Phase 2 or to its return
RaiseGoesOn(c) ==
    FetchRaise(c)
    => /\ loc'[c].all_new = loc[c].all_new
       /\ loc'[c].sidx = loc[c].sidx + 1
       /\ loc'[c].state = loc[c].state
       /\ loc'[c].seen[loc[c].sidx] = NoLink
       /\ loc'[c].pc = IF loc[c].sidx < NumSources THEN "scan"
                       ELSE IF loc[c].all_new = <<>> THEN "done"
                       ELSE "filter"

\* C11: a source whose fetch raises contributes no entries, and the cycle
\* goes on to fetch the remaining sources in registry order and to classify
\* and persist what they returned; it never aborts.
C11_FetchIsolation ==
    /\ [](\A c \in Cycles : loc[c].pc # "idle" => ScanIsolated(c))
    /\ [][\A c \in Cycles : RaiseGoesOn(c)]_vars

\* the fetch of source 1 raised although its feed had entries, and the cycle
\* stored a record of source 2 and completed
C11_Witness ==
    \E c \in Cycles :
        /\ loc[c].pc = "done"
        /\ 1 \in FetchFailed(c)
        /\ \E i \in (loc[c].news0 + 1)..Len(news) : news[i].source_id = 2

\* datetime.fromisoformat: the instant an ISO string stands for
fromisoformat(key) ==
    [sec |-> key[1] - Ord("0"),
     us |-> IF Len(key) > 2 /\ key[2] = Ord(".") THEN key[3] - Ord("0") ELSE 0]

\* instant t1 is not before instant t2
NotBefore(t1, t2) ==
    \/ t1.sec > t2.sec
    \/ t1.sec = t2.sec /\ t1.us >= t2.us

\* the records of list recs from position lo on are in non-increasing
\* publish-time order
NonIncreasingFrom(recs, lo) ==
    \A i, j \in lo..Len(recs) :
        i < j => NotBefore(fromisoformat(recs[i].published_at),
                           fromisoformat(recs[j].published_at))

\* C12: within a cycle store.save is called in non-increasing publish-time
\* order: the list Phase 4 walks is sorted that way, and of any two records
\* inserted in the same cycle the one written earlier has a publish time
\* greater than or equal to the other's.
C12_WriteOrder ==
    \A c \in Cycles :
        loc[c].pc \in {"store", "notify", "savestate", "done"}
        => /\ NonIncreasingFrom(loc[c].relevant, 1)
           /\ NonIncreasingFrom(news, loc[c].news0 + 1)

\* a cycle inserted two records of different publish times that Phase 2 had
\* parsed in ascending order
C12_Witness ==
    \E c \in Cycles :
        /\ loc[c].pc = "done"
        /\ Len(news) >= loc[c].news0 + 2
        /\ news[loc[c].news0 + 1].published_at # news[loc[c].news0 + 2].published_at
        /\ Len(loc[c].parsed) >= 2
        /\ ~NotBefore(fromisoformat(loc[c].parsed[1].published_at),
                      fromisoformat(loc[c].parsed[2].published_at))

\* the records the cycle has written so far, in write order
WrittenBy(c) == SubSeq(news, loc[c].news0 + 1, Len(news))

\* one iteration of Phase 4: the record is appended to inserted_records if
\* and only if store.save returned True
SaveStepAppends(c) ==
    (StoreSave(c) \/ StoreInsertFails(c))
    => LET entry == loc[c].relevant[loc[c].ridx]
       IN  IF loc'[c].ret = Some(TRUE)
           THEN /\ Len(news') = Len(news) + 1
                /\ news'[Len(news')].url = entry.url
                /\ loc'[c].inserted_records
                     = Append(loc[c].inserted_records, news'[Len(news')])
           ELSE /\ news' = news
                /\ loc'[c].inserted_records = loc[c].inserted_records

\* what the notification step is given
HandedList(c) ==
    /\ loc[c].inserted_records = WrittenBy(c)
    /\ \A i, j \in 1..Len(loc[c].inserted_records) :
          i < j => loc[c].inserted_records[i] # loc[c].inserted_records[j]
    /\ loc[c].handed # None
       => /\ The(loc[c].handed) = loc[c].inserted_records
          /\ The(loc[c].handed) # <<>>
    /\ loc[c].pc \in {"savestate", "done"}
       => (loc[c].handed # None <=> loc[c].inserted_records # <<>>)

\* C13: the list handed to the notification step holds exactly the records
\* for which store.save returned True in this cycle, each once, in write
\* order; nothing is handed over when no record was inserted.
C13_NotificationContent ==
    /\ [](\A c \in Cycles : loc[c].pc # "idle" => HandedList(c))
    /\ [][\A c \in Cycles : SaveStepAppends(c)]_vars

\* a list was handed over after a cycle in which store.save returned True
\* for one candidate and False for another
C13_Witness ==
    \E c \in Cycles :
        /\ loc[c].pc = "done"
        /\ loc[c].handed # None
        /\ Len(The(loc[c].handed)) >= 1
        /\ Len(loc[c].relevant) > Len(The(loc[c].handed))

\* the titles stored when cycle c began
TitlesBefore(c) == {news[i].title : i \in 1..loc[c].news0}

\* the positions of relevant whose title was already stored
StoredTitled(c) ==
    {i \in 1..Len(loc[c].relevant) : loc[c].relevant[i].title \in TitlesBefore(c)}

\* the scenario: both sources gave E2ENew new entries, the classifier marked
\* four of them relevant, one of the four has a stored title, and every
\* watermark write of the cycle went through
E2EScenario(c) ==
    /\ loc[c].pc = "done"
    /\ Len(loc[c].all_new) = NumSources
    /\ \A k \in 1..Len(loc[c].all_new) : Len(loc[c].all_new[k].entries) = E2ENew
    /\ Len(loc[c].relevant) = 4
    /\ Cardinality(StoredTitled(c)) = 1
    /\ loc[c].upsert_failed = {}

\* C14: two sources with three new entries each, four of the six marked
\* relevant, one of the four with an already stored title: the cycle
\* persists exactly three records, advances both watermarks to the top
\* links, and hands exactly those three records to the notification in
\* descending publish-time order.
C14_EndToEnd ==
    \A c \in Cycles :
        E2EScenario(c)
        => /\ Len(WrittenBy(c)) = 3
           /\ {WrittenBy(c)[i].url : i \in 1..3}
                = {loc[c].relevant[i].url :
                      i \in (1..Len(loc[c].relevant)) \ StoredTitled(c)}
           /\ \A s \in Sources : wm[s] = feed[s][1].link
           /\ loc[c].handed = Some(WrittenBy(c))
           /\ NonIncreasingFrom(The(loc[c].handed), 1)

\* the scenario has happened, with six parsed entries and records of both
\* sources among the three handed over
C14_Witness ==
    \E c \in Cycles :
        /\ E2EScenario(c)
        /\ Len(loc[c].parsed) = 6
        /\ Len(The(loc[c].handed)) = 3
        /\ {The(loc[c].handed)[i].source_id : i \in 1..3} = Sources

(***************************************************************************)
(* Classifier response handling                                            *)
(***************************************************************************)
\* the call raised, the text is not valid JSON, or `results` is present and
\* not a list
NotAList(resp) ==
    \/ resp.kind = "raise"
    \/ resp.kind = "text" /\ resp.data.t = "notjson"
    \/ /\ resp.kind = "text"
       /\ resp.data.t = "dict"
       /\ resp.data.has_results
       /\ resp.data.results_t # "list"

\* C15: if the classifier call raises, returns text that is not valid JSON,
\* or returns a `results` field that is not a list, _run_filter returns every
\* entry of the submitted batch.
C15_FailOpen ==
    (fPhase = "done" /\ NotAList(The(fResp))) => The(fOut) = fEntries

\* a batch of two came back whole from a response whose `results` is a string
C15_Witness ==
    /\ fPhase = "done"
    /\ The(fResp).kind = "text"
    /\ The(fResp).data.t = "dict"
    /\ The(fResp).data.has_results
    /\ The(fResp).data.results_t = "str"
    /\ Len(fEntries) = 2
    /\ fOut = Some(fEntries)

\* `results` is a list with at least one element that is not an object
NotAllObjects(resp) ==
    /\ resp.kind = "text"
    /\ resp.data.t = "dict"
    /\ resp.data.has_results
    /\ resp.data.results_t = "list"
    /\ \E k \in 1..Len(resp.data.items) : resp.data.items[k].t # "dict"

\* C16: if `results` is a list with an element that is not an object, the
\* whole batch passes through unfiltered; no entry of it is dropped.
C16_ListOfObjects ==
    (fPhase = "done" /\ NotAllObjects(The(fResp))) => The(fOut) = fEntries

(***************************************************************************)
(* Extraction cascade                                                      *)
(***************************************************************************)
\* the call is over and the requests response gave a text of sufficient length
LightPathSufficed ==
    /\ sc.pc = "done"
    /\ ~sc.pdf
    /\ sc.extracted # None

\* C17 as stated: for an HTML URL, when the requests response has status 200,
\* no challenge marker, and a text of at least the minimum length is
\* extracted from it, the browser step is invoked zero times and
\* scrape_article returns that text.
C17_ShortCircuit ==
    LightPathSufficed
    => /\ sc.browser_calls = 0
       /\ ~sc.raised
       /\ sc.result = sc.extracted

\* C17 amended: ... the browser step is invoked zero times and
\* scrape_article returns that text after clean_text, which may be shorter
\* than the minimum length.
C17_ShortCircuitCleaned ==
    LightPathSufficed
    => /\ sc.browser_calls = 0
       /\ ~sc.raised
       /\ sc.result = Some(clean_text(The(sc.extracted)))

\* the requests response gave a text of the minimum length that clean_text
\* shortens, and the call returned it without a browser
C17_Witness ==
    /\ LightPathSufficed
    /\ sc.result # None
    /\ TextLen(The(sc.extracted)) >= MIN_CONTENT_LENGTH
    /\ TextLen(The(sc.result)) < MIN_CONTENT_LENGTH
    /\ sc.browser_calls = 0

\* C18: whatever fails in any strategy, scrape_article ends by returning a
\* text or an absent result and never raises to its caller.
C18_ExtractionBoundary ==
    sc.pc = "done" => ~sc.raised

(***************************************************************************)
(* Browser manager                                                         *)
(***************************************************************************)
LiveProcs(b) == {p \in 1..Len(b.procs) : b.procs[p] = "live"}

\* the live processes the manager launched and has not put through close()
Owned == LiveProcs(bm) \ bm.released

CloseEnds(t) ==
    (th[t].pc = "close_body" /\ th'[t].pc = "idle")
    => /\ ~th'[t].raised
       /\ bm'.instance = None
       /\ bm.instance = None
          => /\ bm'.objs = bm.objs
             /\ bm'.procs = bm.procs
             /\ bm'.epoch = bm.epoch
       /\ (\E s \in BOOLEAN : CloseInstance(t, TRUE, s))
          => \A p \in LiveProcs(bm') : bm.objs[The(bm.instance)].browser # Some(p)

\* a get() that finds the singleton unset constructs a new object and
\* launches a process that did not exist before
GetLaunchesFresh(t) ==
    /\ (th[t].pc = "get_check" /\ bm.instance = None /\ th'[t] # th[t])
       => th'[t].pc = "get_new"
    /\ GetNew(t) => bm'.instance \notin ({None} \cup {Some(i) : i \in 1..Len(bm.objs)})
    /\ GetStartOk(t)
       => LET b == bm'.objs[The(bm'.instance)].browser
          IN  /\ b # None
              /\ The(b) \notin 1..Len(bm.procs)
              /\ The(b) \in LiveProcs(bm')

\* C20: close() closes the browser process and leaves the singleton unset;
\* calling it again, with no instance, or when closing the browser raises
\* has no further effect and never raises; a get() after close() launches a
\* fresh browser.
C20_TeardownIdempotent ==
    /\ [](\A t \in Threads :
            (th[t].pc = "idle" /\ th[t].last = "close") => ~th[t].raised)
    /\ [][\A t \in Threads : CloseEnds(t) /\ GetLaunchesFresh(t)]_vars

\* a browser was closed, a further close() found no instance, and a get()
\* after it has launched a second browser, the only live one
C20_Witness ==
    /\ bm.epoch = 1
    /\ bm.calls = 4
    /\ bm.get_calls = 2
    /\ Len(bm.procs) = 2
    /\ LiveProcs(bm) = {2}
    /\ bm.instance # None
    /\ \A t \in Threads : th[t].pc = "idle"

(***************************************************************************)
(* Scheduler                                                               *)
(***************************************************************************)
\* C21: when a scheduled cycle has ended in a failure, whether the failure
\* was logged by the job or aborted it, the scheduler loop is still running,
\* so that the next cycle is started when it is due; the job that starts
\* holds nothing of the one before.
C21_NoPoisonedState ==
    /\ sch.ended \in {"caught", "exit"} => sch.pc # "dead"
    /\ sch.pc = "get_store"
       => sch.store = "none" /\ sch.before = 0 /\ sch.new_count = 0

(***************************************************************************)
(* Timestamp normalization                                                 *)
(***************************************************************************)
\* the forms that show a date and a time
DateForms == {"T", "space", "web", "rfc822"}

\* the instant the rule gives: the offset the string carries, else UTC+7
\* for the disclosure and the social API and UTC for RSS
ClaimedInstant(raw, source_type) ==
    IF raw.off # None THEN raw.wall - The(raw.off)
    ELSE IF source_type \in {"idx_api", "stockbit_api"} THEN raw.wall - 7
    ELSE raw.wall

NotInFallbackFormats(raw) ==
    \/ raw.form = "rfc822"
    \/ raw.form \in {"space", "web"} /\ raw.off # None

C23_DeterministicId ==
    /\ \A i \in 1..Len(news) : news[i].id = generate_id(news[i].url)
    /\ \A i, j \in 1..Len(news) :
          news[i].url = news[j].url => news[i].id = news[j].id
    /\ \A c \in Cycles : \A k \in 1..Len(loc[c].inserted_records) :
          loc[c].inserted_records[k].id
            = generate_id(loc[c].inserted_records[k].url)

\* a second cycle has stored a record next to one of the first cycle, and
\* the two have the ids of their URLs
C23_Witness ==
    \E c \in Cycles :
        /\ loc[c].news0 >= 1
        /\ Len(news) > loc[c].news0
        /\ Len(loc[c].inserted_records) >= 1
        /\ news[1].id = generate_id(news[1].url)
        /\ news[Len(news)].id = generate_id(news[Len(news)].url)
        /\ news[1].id # news[Len(news)].id

(***************************************************************************)
(* Rejected saves                                                          *)
(***************************************************************************)
\* a call of save has just returned
SaveReturned == store_ret' # None /\ store_calls' = store_calls + 1

\* the record handed to the call is a duplicate of a stored one: same URL,
\* or a title at similarity >= SIMILARITY_THRESHOLD to a stored title
DedupRejects(record, db) ==
    \/ record.url \in AllUrls(db)
    \/ \E i \in 1..Len(db) : Similar(record.title, db[i].title)

\* C24: whenever save returns False the stored records (ids, URLs, titles,
\* statuses) are what they were before the call, and save returns False
\* whenever the record has a stored URL or a near-duplicate of a stored title.
C24_RejectedSaveFrame ==
    [][SaveReturned
       => /\ store_ret' = Some(FALSE) => news' = news
          /\ DedupRejects(The(store_arg'), news) => store_ret' = Some(FALSE)]_vars

\* save refused a record for its URL alone, and the store holds what it held
C24_Witness ==
    /\ store_ret = Some(FALSE)
    /\ store_arg # None
    /\ Len(news) >= 1
    /\ The(store_arg).url \in AllUrls(news)
    /\ \A i \in 1..Len(news) : ~Similar(The(store_arg).title, news[i].title)

(***************************************************************************)
(* C25  Overlapping cycles and URL uniqueness                              *)
(***************************************************************************)
\* both calls of cmd_collect have reached their end
BothDone == \A c \in Cycles : loc[c].pc = "done"

\* cycle c handed an entry with URL u to store.save
SubmittedUrl(c, u) ==
    \E i \in 1..Len(loc[c].relevant) : loc[c].relevant[i].url = u

\* a store.save of cycle c for URL u returned True
SavedUrl(c, u) ==
    \E i \in 1..Len(loc[c].inserted_records) :
        loc[c].inserted_records[i].url = u

\* C25: when a scheduled and a manually triggered cycle overlap and both
\* submit an entry with the same URL, then after both have completed the
\* store holds exactly one record with that URL, and the saves of the two
\* cycles did not both succeed.  (An entry that no save accepted, because its
\* headline is redundant or the insert failed, is not what the claim is about.)
C25_OverlapUrlUnique ==
    BothDone =>
        \A u \in UNION {{feed[s][j].link : j \in 1..Len(feed[s])} : s \in Sources} :
            (/\ \A c \in Cycles : SubmittedUrl(c, u)
             /\ \E c \in Cycles : SavedUrl(c, u))
            => /\ CountUrl(news, u) = 1
               /\ ~ \A c \in Cycles : SavedUrl(c, u)

(***************************************************************************)
(* C26  Overlapping cycles and watermarks                                  *)
(***************************************************************************)
\* the newer of two watermark links of one source (links grow with time,
\* NoLink is older than any)
Newest(a, b) == IF a >= b THEN a ELSE b

\* C26: when two collection cycles overlap, the map saved by the cycle that
\* finishes last does not put back the older watermark it loaded at its
\* start: after both have completed (and no watermark upsert failed) every
\* source's persisted watermark is the newest value either cycle computed.
C26_OverlapWatermarks ==
    (BothDone /\ \A c \in Cycles : loc[c].upsert_failed = {}) =>
        \A s \in Sources :
            wm[s] = Newest(loc["sched"].state[s], loc["manual"].state[s])

(***************************************************************************)
(* C27  One browser for the whole program                                  *)
(***************************************************************************)
\* C27: in every reachable state, counting every thread, at most one
\* headless browser process started by the program is alive: the browser
\* steps of the extraction cascade and of the disclosure fetch reuse the
\* one process of the Browser Resource Manager.
C27_OneBrowser == Cardinality(LiveProcs(bm)) <= 1

(***************************************************************************)
(* C28  Started-or-absent singleton                                        *)
(***************************************************************************)
\* C28: whenever no call holds the lock, a non-null BrowserManager singleton
\* holds a launched browser: when the launch fails inside get(), the
\* exception reaches the caller and no instance is retained, so that no
\* get() returns an instance without a browser.
C28_StartedOrAbsent ==
    /\ (bm.lock = None /\ bm.instance # None) =>
           bm.objs[The(bm.instance)].browser # None
    /\ \A g \in bm.gets : g.browser # None

(***************************************************************************)
(* C29  Dedup gate is the last gate after classification                   *)
(***************************************************************************)
\* the response is a JSON object whose `results` is a list of objects, each
\* with an integer index and a boolean `relevant`, no two for one index
WellFormed(resp) ==
    /\ resp.kind = "text"
    /\ resp.data.t = "dict"
    /\ resp.data.has_results
    /\ resp.data.results_t = "list"
    /\ \A k \in 1..Len(resp.data.items) :
          /\ resp.data.items[k].t = "dict"
          /\ resp.data.items[k].index_t = "int"
          /\ resp.data.items[k].relevant \in {"true", "false"}
    /\ \A j, k \in 1..Len(resp.data.items) :
          resp.data.items[j].index = resp.data.items[k].index => j = k

\* the response marks the i-th entry of the batch relevant
MarkedRelevant(resp, i) ==
    \E k \in 1..Len(resp.data.items) :
        resp.data.items[k].index = i /\ resp.data.items[k].relevant = "true"

\* the entries Phase 2 handed to the classifier in the cycle of SpecGate
GateParsed == ParseAll([s \in Sources |->
                           [source |-> s, entries |-> feed[s],
                            top_link |-> feed[s][1].link]])

\* C29: only entries the classifier step returned reach store.save: every
\* persisted record is of an entry of the returned list, and when the
\* response is well formed no record is persisted for an entry that the
\* response marked not relevant or did not mention.
C29_LastGate ==
    /\ \A i \in 1..Len(news) :
          \E j \in 1..Len(loc["sched"].relevant) :
              /\ loc["sched"].relevant[j].url = news[i].url
              /\ loc["sched"].relevant[j].title = news[i].title
    /\ WellFormed(The(fResp)) =>
          \A j \in 1..Len(GateParsed) :
              ~MarkedRelevant(The(fResp), j) =>
                  \A i \in 1..Len(news) : news[i].url # GateParsed[j].url

\* the response marks the first entry relevant and the second not relevant
\* and does not mention the others; the cycle has stored the first entry
\* and nothing else
C29_Witness ==
    /\ WellFormed(The(fResp))
    /\ Len(The(fResp).data.items) = 2
    /\ MarkedRelevant(The(fResp), 1)
    /\ \E k \in 1..2 : /\ The(fResp).data.items[k].index = 2
                       /\ The(fResp).data.items[k].relevant = "false"
    /\ loc["sched"].pc = "done"
    /\ Len(news) = 1
    /\ news[1].url = GateParsed[1].url

(***************************************************************************)
(* C30  Cooperative callers never block the event-loop thread              *)
(***************************************************************************)
\* C30: when the event loop handles an analyze or collect request, the
\* blocking analysis or collection cycle runs on an executor worker thread
\* and never on the thread of the loop, and the handler marks the record
\* analyzed or reports the result only after that worker has finished.
C30_DelegatedAndAwaited ==
    /\ \A r \in ev.ran : r.thread # "loop"
    /\ \A h \in Handlers :
          /\ ev.h[h].job \in {"ok", "raised"} =>
                \E r \in ev.ran : r.h = h /\ r.op = BlockingOp(ev.h[h].kind)
          /\ ev.h[h].job \in {"queued", "running"} =>
                ~ev.h[h].marked /\ ev.h[h].reported = "none"
          /\ ev.h[h].marked \/ ev.h[h].reported = "result" => ev.h[h].job = "ok"

\* an analyze request was marked and reported after analyze_single ran on a
\* worker, while the cycle of a collect request was still running there
C30_Witness ==
    /\ \E h \in Handlers :
          /\ ev.h[h].kind = "analyze"
          /\ ev.h[h].marked
          /\ ev.h[h].reported = "result"
          /\ [h |-> h, op |-> "analyze_single", thread |-> "worker"] \in ev.ran
    /\ \E h \in Handlers :
          /\ ev.h[h].kind = "collect"
          /\ ev.h[h].job = "running"
          /\ ev.h[h].reported = "none"

(***************************************************************************)
(* C31  Context cleanup                                                    *)
(***************************************************************************)
\* C31: every browsing context and page opened by fetch_html is closed by
\* the time the call returns or raises, on the success path and on every
\* failure path, while the browser process stays open.
C31_ContextCleanup ==
    /\ fh.browser = "live"
    /\ fh.pc = "idle" => fh.contexts = 0 /\ fh.pages = 0

(***************************************************************************)
(* C32  Inter-request delay                                                *)
(***************************************************************************)
\* C32: on one instance the first fetch_html performs no delay and every
\* later one waits BROWSER_DELAY before it opens its context, whether or not
\* earlier fetches failed: once the k-th call is past its first lines the
\* instance has slept (k - 1) delays, and no context of that call is opened
\* before.
C32_InterRequestDelay ==
    /\ fh.request_count >= 1 =>
           fh.slept = BROWSER_DELAY * (fh.request_count - 1)
    /\ fh.request_count = 0 => fh.slept = 0
    /\ fh.opened <= fh.request_count

\* the third call has waited and opened its context after two calls of which
\* one ended with an exception
C32_Witness ==
    /\ fh.request_count = 3
    /\ fh.failures >= 1
    /\ fh.pc = "new_page"
    /\ fh.slept = 2 * BROWSER_DELAY

(***************************************************************************)
(* C33  Extraction-failure substitution                                    *)
(***************************************************************************)
\* C33: whenever the extraction gives no text or a text shorter than the
\* minimum length, analyze_single sends title and summary to the analysis
\* service instead and still returns an analysis; an extraction failure
\* never prevents the record from being analysed.
C33_Substitution ==
    (az.pc = "done" /\ (sc.raised \/ Insufficient(sc.result))) =>
        /\ ~az.raised
        /\ az.content = "substitute"
        /\ az.result # "none"

(***************************************************************************)
(* C34  No-new-entries cycle has no effects                                *)
(***************************************************************************)
\* in cycle c every source failed, returned nothing, or listed at its top
\* the entry of its watermark
NothingNew(c) ==
    /\ loc[c].pc \notin {"idle", "scan"}
    /\ \A s \in Sources :
          loc[c].seen[s] = NoLink \/ loc[c].seen[s] = loc[c].wm0[s]

\* C34: a collection cycle in which no source yields new entries makes no
\* classifier call, writes no record, writes no watermark and sends no
\* notification: it returns after the scan.
C34_NoNewEntries ==
    \A c \in Cycles :
        NothingNew(c) =>
            /\ loc[c].pc = "done"
            /\ loc[c].parsed = <<>> /\ loc[c].bidx = 0
            /\ loc[c].relevant = <<>>
            /\ loc[c].ret = None
            /\ Len(news) = loc[c].news0
            /\ wm = loc[c].wm0
            /\ loc[c].state = loc[c].wm0
            /\ loc[c].handed = None

\* a cycle ended after the scan: one source was up to date, the other failed
\* or returned nothing, with records stored before
C34_Witness ==
    \E c \in Cycles :
        /\ NothingNew(c)
        /\ loc[c].pc = "done"
        /\ \E s \in Sources : loc[c].seen[s] # NoLink
        /\ \E s \in Sources : loc[c].seen[s] = NoLink /\ feed[s] # <<>>
        /\ loc[c].news0 >= 1

(***************************************************************************)
(* C35  Record lifecycle                                                   *)
(***************************************************************************)
\* C35: every persisted record has status raw or analyzed; a record is
\* created with status raw; the only status change is from raw to analyzed;
\* no step changes the id or the URL of a stored record or removes a record.
C35_Lifecycle ==
    [][/\ Len(news') >= Len(news)
       /\ \A i \in 1..Len(news') : news'[i].status \in {"raw", "analyzed"}
       /\ \A i \in (Len(news) + 1)..Len(news') : news'[i].status = "raw"
       /\ \A i \in 1..Len(news) :
             /\ news'[i].id = news[i].id
             /\ news'[i].url = news[i].url
             /\ news'[i].status # news[i].status
                  => news[i].status = "raw" /\ news'[i].status = "analyzed"]_vars

(***************************************************************************)
(* C36  Bounded challenge wait                                             *)
(***************************************************************************)
\* the waits the loop may make, in order
ChallengeWaits == <<8, 13, 18>>

\* the loop of lines 174-185 is over
LoopOver == cw.pc \in {"scroll", "final", "done"}

\* the loop's test still finds a challenge marker in the title or the HTML
\* last read
CarriesMarker == Blocked(cw)

\* C36: the challenge loop of the browser-render step makes at most 3 waits,
\* of 8 s, 13 s and 18 s in that order, ends at the first test that finds no
\* marker in title or HTML, always ends after at most 3 tests, and a step
\* whose final page still carries a challenge marker returns no text.
C36_BoundedChallengeWait ==
    cw.pc # "off" =>
        /\ Len(cw.waits) <= 3
        /\ cw.waits = SubSeq(ChallengeWaits, 1, Len(cw.waits))
        /\ cw.checks <= 3
        /\ cw.pc = "scroll" /\ Len(cw.waits) < 3
              => ~Blocked(cw) /\ cw.checks = Len(cw.waits) + 1
        /\ cw.pc = "done" /\ CarriesMarker => cw.result = None

(***************************************************************************)
(* C37  Document pipeline order                                            *)
(***************************************************************************)
\* the order of the document pipeline's steps
PdfOrder == <<"direct", "fetch", "download">>

\* C37: for a PDF-like URL the steps run are a prefix of direct download,
\* in-page fetch, real download (the HTML pipeline is not among them); a
\* step runs only if every earlier step gave no sufficient text; and when the
\* call has ended, the first sufficient text a step gave is what it returned.
C37_PdfOrder ==
    sc.pc # "off" /\ sc.pdf =>
        /\ sc.ran = SubSeq(PdfOrder, 1, Len(sc.ran))
        /\ \A k \in 1..Len(sc.ran) : \A j \in 1..(k - 1) : sc.got[j] = None
        /\ sc.pc = "done" =>
              \A k \in 1..Len(sc.got) :
                  sc.got[k] # None => sc.result = sc.got[k] /\ ~sc.raised

(***************************************************************************)
(* C38  Disclosure-adapter escalation                                      *)
(***************************************************************************)
\* the call of fetch_idx_announcements is over and neither method gave data
BothFailed ==
    /\ ix.pc \in {"loop", "done"}
    /\ ix.direct # None /\ The(ix.direct) \in DirectFailures
    /\ ix.data = None

\* C38: the browser is started only after the direct request answered
\* non-200, non-JSON or raised, never after it succeeded; when both methods
\* fail the adapter returns an empty list (it does not raise), and the scan
\* loop goes on with the next source.
C38_Escalation ==
    ix.pc # "off" =>
        /\ ix.launches > 0 => The(ix.direct) \in DirectFailures
        /\ ix.direct = Some("ok") => ix.launches = 0 /\ ix.browser = "none"
        /\ BothFailed => ix.ret = Some(<<>>) /\ ~ix.raised
        /\ BothFailed /\ ix.pc = "done" => ix.next_source

(***************************************************************************)
(* C39  Notification failure is contained                                  *)
(***************************************************************************)
\* the notification call of cycle c raised
NotifyFailed(c) == "notify" \in loc[c].failed

\* the stored records
Stored == {news[i] : i \in 1..Len(news)}

C40_AdminGating ==
    ad.pc # "off" =>
        /\ \A e \in ad.changed_by : IsAdmin(e[1])
        /\ \A u \in ad.collects : IsAdmin(u)
        /\ \A u \in ad.cleanups : IsAdmin(u)

====
